---- MODULE Spec2Model ----
(***************************************************************************)
(* Session state machine of the checkpoint & session lifecycle engine      *)
(* (src/src/session/state-machine.ts): the pure transition table and the   *)
(* action-application harness applyTransition.                             *)
(***************************************************************************)
EXTENDS Integers, Sequences, FiniteSets, TLC

\* ------------------------------------------------------------------ bounds

\* Largest reading of the wall clock (new Date()) the model follows.
MaxClock == 2
\* Longest action list handed to applyTransition.
MaxActions == 2

\* ------------------------------------------------------------------ types

\* type Phase = 'active' | 'idle' | 'ended'
Phases == {"idle", "active", "ended"}

\* Values a stored phase string can take: the three phases, the retired
\* 'active_committed', the empty string, an unknown string, and "undefined"
\* standing for the JavaScript value undefined.
RawPhases == Phases \cup {"active_committed", "", "paused", "undefined"}

\* enum StateMachineEvent
Events == {"TurnStart", "TurnEnd", "GitCommit", "SessionStart", "SessionStop", "Compaction"}

\* enum Action
HandlerActions == {"Condense", "CondenseIfFilesTouched", "DiscardIfNoFiles", "WarnStaleSession"}
CommonActions == {"ClearEndedAt", "UpdateLastInteraction"}
Actions == HandlerActions \cup CommonActions

\* interface TransitionContext
Contexts == [hasFilesTouched : BOOLEAN, isRebaseInProgress : BOOLEAN]

\* An optional timestamp field that is absent (undefined).
NoTime == 0
\* handlerErr = null
NoError == 0

\* Repository-relative paths a session may have touched.
Files == {"a.ts"}

\* interface StateMachineState (sessionID is never read or written here)
States == [phase : Phases,
           filesTouched : SUBSET Files,
           lastInteractionTime : {NoTime, 1},
           endedAt : {NoTime, 1}]

\* interface TransitionResult
Result(p, as) == [newPhase |-> p, actions |-> as]

\* --------------------------------------------------------------- transition

\* Mutant: the default case returns its argument instead of 'idle'.
phaseFromString_passthrough(s) ==
  CASE s = "active" -> "active"
    [] s = "active_committed" -> "active"
    [] OTHER -> s

phaseFromString(s) ==
  CASE s = "active" -> "active"
    [] s = "active_committed" -> "active"
    [] s = "idle" -> "idle"
    [] s = "ended" -> "ended"
    [] OTHER -> "idle"

\* Mutant: an idle session condenses on commit only when files were touched.
idleOnGitCommit_onlyIfFiles(ctx) ==
  IF ctx.isRebaseInProgress \/ ~ctx.hasFilesTouched
    THEN Result("idle", <<>>)
    ELSE Result("idle", <<"Condense", "UpdateLastInteraction">>)

\* Mutant: the commit of an idle session touches the session before it
\* condenses.
idleOnGitCommit_updateFirst(ctx) ==
  IF ctx.isRebaseInProgress
    THEN Result("idle", <<>>)
    ELSE Result("idle", <<"UpdateLastInteraction", "Condense">>)

\* transitionFromIdle, case GitCommit
idleOnGitCommit(ctx) ==
  IF ctx.isRebaseInProgress
    THEN Result("idle", <<>>)
    ELSE Result("idle", <<"Condense", "UpdateLastInteraction">>)

transitionFromIdle(event, ctx) ==
  CASE event = "TurnStart" -> Result("active", <<"UpdateLastInteraction">>)
    [] event = "TurnEnd" -> Result("idle", <<>>)
    [] event = "GitCommit" -> idleOnGitCommit(ctx)
    [] event = "SessionStart" -> Result("idle", <<>>)
    [] event = "SessionStop" -> Result("ended", <<"UpdateLastInteraction">>)
    [] event = "Compaction" ->
         Result("idle", <<"CondenseIfFilesTouched", "UpdateLastInteraction">>)
    [] OTHER -> Result("idle", <<>>)

\* Mutant: a commit on an active session moves it to the retired phase
\* 'active_committed' of the former checkpoint model.
activeOnGitCommit_retiredPhase(ctx) ==
  IF ctx.isRebaseInProgress
    THEN Result("active", <<>>)
    ELSE Result("active_committed", <<"Condense", "UpdateLastInteraction">>)

\* transitionFromActive, case GitCommit
activeOnGitCommit(ctx) ==
  IF ctx.isRebaseInProgress
    THEN Result("active", <<>>)
    ELSE Result("active", <<"Condense", "UpdateLastInteraction">>)

\* Mutant: a duplicate SessionStart also refreshes lastInteractionTime.
activeOnSessionStart_touches ==
  Result("active", <<"WarnStaleSession", "UpdateLastInteraction">>)

\* transitionFromActive, case SessionStart
activeOnSessionStart ==
  Result("active", <<"WarnStaleSession">>)

\* Mutant: compaction of an active session condenses unconditionally.
activeOnCompaction_condense ==
  Result("active", <<"Condense", "UpdateLastInteraction">>)

\* transitionFromActive, case Compaction
activeOnCompaction ==
  Result("active", <<"CondenseIfFilesTouched", "UpdateLastInteraction">>)

transitionFromActive(event, ctx) ==
  CASE event = "TurnStart" -> Result("active", <<"UpdateLastInteraction">>)
    [] event = "TurnEnd" -> Result("idle", <<"UpdateLastInteraction">>)
    [] event = "GitCommit" -> activeOnGitCommit(ctx)
    [] event = "SessionStart" -> activeOnSessionStart
    [] event = "SessionStop" -> Result("ended", <<"UpdateLastInteraction">>)
    [] event = "Compaction" -> activeOnCompaction
    [] OTHER -> Result("active", <<>>)

\* Mutant: the test of hasFilesTouched is inverted.
endedOnGitCommit_inverted(ctx) ==
  IF ctx.isRebaseInProgress
    THEN Result("ended", <<>>)
    ELSE IF ~ctx.hasFilesTouched
      THEN Result("ended", <<"CondenseIfFilesTouched", "UpdateLastInteraction">>)
      ELSE Result("ended", <<"DiscardIfNoFiles", "UpdateLastInteraction">>)

\* Mutant: the rebase check is missing from the ended phase.
endedOnGitCommit_noRebaseCheck(ctx) ==
  IF ctx.hasFilesTouched
    THEN Result("ended", <<"CondenseIfFilesTouched", "UpdateLastInteraction">>)
    ELSE Result("ended", <<"DiscardIfNoFiles", "UpdateLastInteraction">>)

\* transitionFromEnded, case GitCommit
endedOnGitCommit(ctx) ==
  IF ctx.isRebaseInProgress
    THEN Result("ended", <<>>)
    ELSE IF ctx.hasFilesTouched
      THEN Result("ended", <<"CondenseIfFilesTouched", "UpdateLastInteraction">>)
      ELSE Result("ended", <<"DiscardIfNoFiles", "UpdateLastInteraction">>)

\* Mutant: stopping an ended session refreshes lastInteractionTime like the
\* other phases do.
endedOnSessionStop_touches ==
  Result("ended", <<"UpdateLastInteraction">>)

\* transitionFromEnded, case SessionStop
endedOnSessionStop ==
  Result("ended", <<>>)

transitionFromEnded(event, ctx) ==
  CASE event = "TurnStart" ->
         Result("active", <<"ClearEndedAt", "UpdateLastInteraction">>)
    [] event = "TurnEnd" -> Result("ended", <<>>)
    [] event = "GitCommit" -> endedOnGitCommit(ctx)
    [] event = "SessionStart" -> Result("idle", <<"ClearEndedAt">>)
    [] event = "SessionStop" -> endedOnSessionStop
    [] event = "Compaction" -> Result("ended", <<>>)
    [] OTHER -> Result("ended", <<>>)

transition(current, event, ctx) ==
  LET cur == phaseFromString(current) IN
  CASE cur = "idle" -> transitionFromIdle(event, ctx)
    [] cur = "active" -> transitionFromActive(event, ctx)
    [] cur = "ended" -> transitionFromEnded(event, ctx)
    [] OTHER -> Result("idle", <<>>)

\* ---------------------------------------------------------- applyTransition

\* The accumulator of the harness: the state object, handlerErr (the index of
\* the action whose handler threw, NoError for null) and the handler calls
\* made so far, each with the state the handler was given.
Acc(st, handlerErr, cs) == [state |-> st, handlerErr |-> handlerErr, calls |-> cs]

\* Mutant: the handler is awaited whether or not an earlier one threw.
callHandler_noGuard(acc, action, i, rejects) ==
  Acc(acc.state,
      IF rejects THEN i ELSE acc.handlerErr,
      Append(acc.calls, [index |-> i, action |-> action,
                         seen |-> acc.state, threw |-> rejects]))

\* One handler-backed case of the switch: the handler is awaited only while
\* handlerErr is null; `rejects` says whether the awaited promise rejects.
\* The handlers are NoOpActionHandler's: they do not mutate the state.
callHandler(acc, action, i, rejects) ==
  IF acc.handlerErr = NoError
    THEN Acc(acc.state,
             IF rejects THEN i ELSE NoError,
             Append(acc.calls, [index |-> i, action |-> action,
                                seen |-> acc.state, threw |-> rejects]))
    ELSE acc

\* Mutant: the common actions are skipped once a handler has thrown.
applyAction_commonGuarded(acc, action, i, rejects, t) ==
  CASE action \in CommonActions /\ acc.handlerErr # NoError -> acc
    [] action = "UpdateLastInteraction" ->
         Acc([acc.state EXCEPT !.lastInteractionTime = t], acc.handlerErr, acc.calls)
    [] action = "ClearEndedAt" ->
         Acc([acc.state EXCEPT !.endedAt = NoTime], acc.handlerErr, acc.calls)
    [] action \in HandlerActions -> callHandler(acc, action, i, rejects)
    [] OTHER -> acc

\* Mutant: the switch has no case for ClearEndedAt.
applyAction_noClear(acc, action, i, rejects, t) ==
  CASE action = "UpdateLastInteraction" ->
         Acc([acc.state EXCEPT !.lastInteractionTime = t], acc.handlerErr, acc.calls)
    [] action \in HandlerActions -> callHandler(acc, action, i, rejects)
    [] OTHER -> acc

\* Mutant: the UpdateLastInteraction case lacks its break and falls through
\* into the ClearEndedAt case.
applyAction_fallthrough(acc, action, i, rejects, t) ==
  CASE action = "UpdateLastInteraction" ->
         Acc([acc.state EXCEPT !.lastInteractionTime = t, !.endedAt = NoTime],
             acc.handlerErr, acc.calls)
    [] action = "ClearEndedAt" ->
         Acc([acc.state EXCEPT !.endedAt = NoTime], acc.handlerErr, acc.calls)
    [] action \in HandlerActions -> callHandler(acc, action, i, rejects)
    [] OTHER -> acc

\* The body of the loop of applyTransition: the switch on the i-th action,
\* with `t` the reading of the clock taken by new Date().
applyAction(acc, action, i, rejects, t) ==
  CASE action = "UpdateLastInteraction" ->
         Acc([acc.state EXCEPT !.lastInteractionTime = t], acc.handlerErr, acc.calls)
    [] action = "ClearEndedAt" ->
         Acc([acc.state EXCEPT !.endedAt = NoTime], acc.handlerErr, acc.calls)
    [] action \in HandlerActions -> callHandler(acc, action, i, rejects)
    [] OTHER -> acc

\* -------------------------------------------------------------- the machine

VARIABLES
  state,      \* the StateMachineState object
  now,        \* last reading of the wall clock
  op,         \* "init", "transition" (transition returned), "applying"
              \* (inside applyTransition's loop), "applied" (it returned)
  inPhase,    \* transition's `current` argument
  inEvent,    \* transition's `event` argument
  inCtx,      \* transition's `ctx` argument
  result,     \* the TransitionResult returned by transition, or the one given
              \* to applyTransition (its actions as far as the loop has got)
  pre,        \* the state as it was when applyTransition was called
  calls,      \* handler invocations of this applyTransition call, in order
  err         \* handlerErr: what applyTransition returns

vars == <<state, now, op, inPhase, inEvent, inCtx, result, pre, calls, err>>

NoCtx == [hasFilesTouched |-> FALSE, isRebaseInProgress |-> FALSE]

\* ----------------------------------------------- the other components' state

\* The attribution engine (diffLines, calculateAttributionWithAccumulated).
VARIABLES
  aOp,        \* "ready", "diffLines", "prompts" (inside the loop over
              \* promptAttributions) or "attribution" (a result was returned)
  aIn,        \* the arguments of the call
  aAcc,       \* accumulatedUserRemoved and accumulatedUserAddedPerFile
  aOut        \* the value returned

attrVars == <<aOp, aIn, aAcc, aOut>>

\* No call of the attribution engine has been made.
AttrReady ==
  /\ aOp = "ready"
  /\ aIn = [kind |-> "none"]
  /\ aAcc = [kind |-> "none"]
  /\ aOut = [kind |-> "none"]

\* The tree builder (updateSubtree) on the committed-checkpoints branch.
VARIABLES
  tRoot,      \* the root tree of the branch
  tPrev,      \* the root tree before the last write
  tLast,      \* the last write: checkpoint ID and subtree placed
  tWritten    \* every write made: checkpoint ID and subtree placed

treeVars == <<tRoot, tPrev, tLast, tWritten>>

\* The empty string given for a tree hash: no tree.
NoTree == [type |-> "none", id |-> 0, entries |-> {}]

\* No checkpoint has been committed.
TreeReady ==
  /\ tRoot = NoTree
  /\ tPrev = NoTree
  /\ tLast = [kind |-> "none"]
  /\ tWritten = {}

\* The checkpoint store's shadow branch and the writeTemporary calls in progress.
VARIABLES
  sRef,       \* the commit the shadow branch ref points to (0: no branch)
  sCommits,   \* the commit objects, by commit id: parent and tree
  sPc,        \* where each writer is in its writeTemporary call
  sLocal,     \* each writer's locals: content, tip read, commit made, result
  sDone       \* the commits returned by calls that were not skipped

storeVars == <<sRef, sCommits, sPc, sLocal, sDone>>

\* The processes that call writeTemporary.
Writers == {"w1", "w2"}

\* A writer's locals outside a call.
NoLocal ==
  [content |-> 0, tip |-> 0, commit |-> 0, retries |-> 0, advanced |-> FALSE,
   skipped |-> FALSE, calls |-> 0]

\* No shadow branch, no call in progress.
StoreReady ==
  /\ sRef = 0
  /\ sCommits = <<>>
  /\ sPc = [w \in Writers |-> "idle"]
  /\ sLocal = [w \in Writers |-> NoLocal]
  /\ sDone = {}

\* The content-overlap checks (filesOverlapWithContent,
\* hasSignificantContentOverlap).
VARIABLES
  oOp,        \* "ready", "lines" (hasSignificantContentOverlap returned) or
              \* "files" (filesOverlapWithContent returned)
  oIn,        \* the arguments of the call
  oOut        \* the value returned

overlapVars == <<oOp, oIn, oOut>>

\* No overlap check has been made.
OverlapReady ==
  /\ oOp = "ready"
  /\ oIn = [kind |-> "none"]
  /\ oOut = FALSE

\* The checkpoint event log file.
VARIABLES
  gFile,      \* the content of the file, a string
  gAppended,  \* the events appended so far, in order
  gOpts       \* opts.maxEvents of the calls

logVars == <<gFile, gAppended, gOpts>>

\* opts.maxEvents undefined.
NoMaxEvents == [defined |-> FALSE, n |-> 0]

\* No event has been appended: the file does not exist.
LogReady ==
  /\ gFile = <<>>
  /\ gAppended = <<>>
  /\ gOpts = NoMaxEvents

\* The lifecycle dispatcher and the session store.
VARIABLES
  lStore,     \* the stored state of the session, or NoSession
  lPc,        \* where each hook process is in its dispatch
  lLocal,     \* each hook process's event and the state object it loaded
  lNow,       \* the clock new Date() reads
  lEnters,    \* the number of PlanModeEnter events dispatched so far
  lWrites     \* the number of writeTemporary calls that returned skipped = false,
              \* while the turns of a session are counted

lifeVars == <<lStore, lPc, lLocal, lNow, lEnters, lWrites>>

\* The hook processes that dispatch events.
Hooks == {"h1", "h2"}

\* sessionStore.load found nothing.
NoSession == [exists |-> FALSE]

\* A hook process outside a dispatch.
NoDispatch == [event |-> [type |-> "none"], loaded |-> NoSession, saved |-> FALSE]

\* No session is stored, no dispatch is in progress.
LifeReady ==
  /\ lStore = NoSession
  /\ lPc = [h \in Hooks |-> "idle"]
  /\ lLocal = [h \in Hooks |-> NoDispatch]
  /\ lNow = 1
  /\ lEnters = 0
  /\ lWrites = 0

\* The variables the state machine does not touch.
\* normalizeAfterLoad.
VARIABLES
  nIn,        \* the state object as it was loaded
  nPrev,      \* the state object before the last call
  nState,     \* the state object
  nCalls      \* the number of calls of normalizeAfterLoad made on it

normVars == <<nIn, nPrev, nState, nCalls>>

\* A field that is undefined, and a numeric field.
Undefined == [defined |-> FALSE, n |-> 0]
Num(n) == [defined |-> TRUE, n |-> n]

\* A state object with every field undefined.
EmptyLoaded ==
  [phase |-> "undefined",
   checkpointTranscriptStart |-> Undefined,
   condensedTranscriptLines |-> Undefined,
   transcriptLinesAtStart |-> Undefined,
   attributionBaseCommit |-> "undefined",
   baseCommit |-> "undefined"]

\* Nothing was loaded.
NormReady == nIn = EmptyLoaded /\ nPrev = EmptyLoaded /\ nState = EmptyLoaded /\ nCalls = 0

\* The maintenance commands (reset, discardSession).
VARIABLES
  mSessions,  \* the session store: session ID -> SessionState, or NoSession
  mBranches,  \* the shadow branches that exist
  mHead,      \* HEAD
  mOp         \* the last command: its arguments, the stores before it, its result

maintVars == <<mSessions, mBranches, mHead, mOp>>

NoCommand == [kind |-> "none"]

\* No session is stored, no branch exists, no command was run.
MaintReady ==
  /\ mSessions = [id \in {} |-> NoSession]
  /\ mBranches = {}
  /\ mHead = <<>>
  /\ mOp = NoCommand

componentVars ==
  <<attrVars, treeVars, storeVars, overlapVars, logVars, lifeVars, normVars, maintVars>>

allVars == <<vars, componentVars>>

Init ==
  /\ state \in States
  /\ now = 1
  /\ op = "init"
  /\ inPhase = "idle"
  /\ inEvent = "TurnEnd"
  /\ inCtx = NoCtx
  /\ result = Result("idle", <<>>)
  /\ pre = state
  /\ calls = <<>>
  /\ err = NoError
  /\ AttrReady
  /\ TreeReady
  /\ StoreReady
  /\ OverlapReady
  /\ LogReady
  /\ LifeReady /\ NormReady /\ MaintReady

\* No call is in progress.
Ready == op \in {"init", "transition", "applied"}

\* A call transition(current, event, ctx): pure, the state is not touched.
TransitionCall ==
  /\ Ready
  /\ UNCHANGED componentVars
  /\ \E current \in RawPhases, event \in Events, ctx \in Contexts :
       /\ op' = "transition"
       /\ inPhase' = current
       /\ inEvent' = event
       /\ inCtx' = ctx
       /\ result' = transition(current, event, ctx)
       /\ pre' = state
       /\ calls' = <<>>
       /\ err' = NoError
       /\ UNCHANGED <<state, now>>

\* applyTransition is entered with a result whose newPhase is p: the phase is
\* set and handlerErr starts null. The action list is any list of at most
\* MaxActions actions; the loop reads it one element at a time, so the model
\* draws each element when the loop reaches it.
ApplyEnter ==
  /\ Ready
  /\ UNCHANGED componentVars
  /\ \E p \in Phases :
       /\ op' = "applying"
       /\ inPhase' = "idle"
       /\ inEvent' = "TurnEnd"
       /\ inCtx' = NoCtx
       /\ result' = Result(p, <<>>)
       /\ pre' = state
       /\ state' = [state EXCEPT !.phase = p]
       /\ calls' = <<>>
       /\ err' = NoError
       /\ UNCHANGED now

\* One iteration of the loop, on the next action of the list.
ApplyStep ==
  /\ op = "applying"
  /\ Len(result.actions) < MaxActions
  /\ UNCHANGED componentVars
  /\ \E action \in Actions, rejects \in BOOLEAN, t \in now..MaxClock :
       LET i == Len(result.actions) + 1
           out == applyAction(Acc(state, err, calls), action, i, rejects, t)
       IN /\ (action # "UpdateLastInteraction" => t = now)
          /\ result' = [result EXCEPT !.actions = Append(@, action)]
          /\ state' = out.state
          /\ err' = out.handlerErr
          /\ calls' = out.calls
          /\ now' = t
          /\ UNCHANGED <<op, inPhase, inEvent, inCtx, pre>>

\* The list is exhausted: applyTransition returns handlerErr.
ApplyReturn ==
  /\ op = "applying"
  /\ op' = "applied"
  /\ UNCHANGED <<state, now, inPhase, inEvent, inCtx, result, pre, calls, err>>
  /\ UNCHANGED componentVars

Next == TransitionCall \/ ApplyEnter \/ ApplyStep \/ ApplyReturn

Spec == Init /\ [][Next]_allVars

TypeOK ==
  /\ state.phase \in Phases
  /\ now \in 1..MaxClock
  /\ op \in {"init", "transition", "applying", "applied"}
  /\ Len(result.actions) <= MaxActions

\* ------------------------------------------------------------------ claims

\* The last call was transition(current, event, ctx) and `result` is what it
\* returned.
Transitioned(event) == op = "transition" /\ inEvent = event

\* applyTransition has returned: `pre` is the state it was given, `result`
\* the TransitionResult, `state` the state it left, `err` what it returned.
Applied == op = "applied"

\* Positions of the handler-backed actions in the list given to applyTransition.
HandlerIdx == {i \in 1..Len(result.actions) : result.actions[i] \in HandlerActions}

\* Positions of the list whose handler was invoked.
Invoked == {calls[k].index : k \in 1..Len(calls)}

Has(action) == \E i \in 1..Len(result.actions) : result.actions[i] = action

\* C1: for every current phase value (unrecognised strings included), every
\* event and every context, transition returns a newPhase that is one of
\* idle, active, ended, together with a finite list of actions.
C1_TransitionTotal ==
  op = "transition" =>
    /\ DOMAIN result = {"newPhase", "actions"}
    /\ result.newPhase \in Phases
    /\ result.actions \in Seq(Actions)
    /\ Len(result.actions) <= 2

C1_Witness ==
  /\ Transitioned("GitCommit")
  /\ inPhase = "active_committed"
  /\ ~inCtx.isRebaseInProgress
  /\ result.newPhase = "active"

\* C2: from ended, a GitCommit with no rebase in progress stays ended and
\* returns [CondenseIfFilesTouched, UpdateLastInteraction] when files were
\* touched, [DiscardIfNoFiles, UpdateLastInteraction] when none were.
C2_EndedGitCommit ==
  (Transitioned("GitCommit") /\ inPhase = "ended" /\ ~inCtx.isRebaseInProgress) =>
    result = IF inCtx.hasFilesTouched
               THEN Result("ended", <<"CondenseIfFilesTouched", "UpdateLastInteraction">>)
               ELSE Result("ended", <<"DiscardIfNoFiles", "UpdateLastInteraction">>)

C2_Witness ==
  /\ Transitioned("GitCommit")
  /\ inPhase = "ended"
  /\ ~inCtx.isRebaseInProgress
  /\ ~inCtx.hasFilesTouched
  /\ result.actions = <<"DiscardIfNoFiles", "UpdateLastInteraction">>

\* C3: a GitCommit while a rebase is in progress returns the same phase and
\* no action, from idle, active and ended and for either hasFilesTouched; so
\* applying that result invokes no handler and leaves the state as it was.
C3_RebaseNoActions ==
  /\ (Transitioned("GitCommit") /\ inPhase \in Phases /\ inCtx.isRebaseInProgress) =>
       result = Result(inPhase, <<>>)
  /\ \A files \in BOOLEAN :
       (Applied /\ result = transition(pre.phase, "GitCommit",
                                       [hasFilesTouched |-> files,
                                        isRebaseInProgress |-> TRUE])) =>
         (calls = <<>> /\ state = pre)

C3_Witness ==
  /\ Transitioned("GitCommit")
  /\ inPhase = "ended"
  /\ inCtx.isRebaseInProgress
  /\ inCtx.hasFilesTouched
  /\ result.actions = <<>>

\* C4: from idle or active, a GitCommit with no rebase in progress keeps the
\* phase and returns exactly [Condense, UpdateLastInteraction], whether or not
\* files were touched.
C4_LiveGitCommit ==
  (Transitioned("GitCommit") /\ inPhase \in {"idle", "active"}
     /\ ~inCtx.isRebaseInProgress) =>
    result = Result(inPhase, <<"Condense", "UpdateLastInteraction">>)

C4_Witness ==
  /\ Transitioned("GitCommit")
  /\ inPhase = "idle"
  /\ ~inCtx.isRebaseInProgress
  /\ ~inCtx.hasFilesTouched
  /\ result.actions = <<"Condense", "UpdateLastInteraction">>

\* C5 as stated: from every phase (idle, active, ended) a Compaction leaves
\* the phase unchanged and returns [CondenseIfFilesTouched, UpdateLastInteraction].
C5_Original ==
  (Transitioned("Compaction") /\ inPhase \in Phases) =>
    result = Result(inPhase, <<"CondenseIfFilesTouched", "UpdateLastInteraction">>)

\* C5 amended: a Compaction leaves the phase unchanged; from idle and active
\* it returns [CondenseIfFilesTouched, UpdateLastInteraction], from ended it
\* returns no action.
C5_Compaction ==
  (Transitioned("Compaction") /\ inPhase \in Phases) =>
    result = IF inPhase = "ended"
               THEN Result("ended", <<>>)
               ELSE Result(inPhase, <<"CondenseIfFilesTouched", "UpdateLastInteraction">>)

C5_Witness ==
  /\ Transitioned("Compaction")
  /\ inPhase = "active"
  /\ result.actions = <<"CondenseIfFilesTouched", "UpdateLastInteraction">>

\* C6: SessionStop from any phase yields ended; the actions are
\* [UpdateLastInteraction] from idle and active and none from ended.
C6_SessionStop ==
  (Transitioned("SessionStop") /\ inPhase \in Phases) =>
    result = IF inPhase = "ended"
               THEN Result("ended", <<>>)
               ELSE Result("ended", <<"UpdateLastInteraction">>)

C6_Witness ==
  /\ Transitioned("SessionStop")
  /\ inPhase = "ended"
  /\ result = Result("ended", <<>>)

\* C7: TurnStart always leads to active: from idle and active with
\* [UpdateLastInteraction], from ended with [ClearEndedAt,
\* UpdateLastInteraction]; applying the latter to an ended session leaves it
\* active with endedAt cleared.
C7_TurnStartResumes ==
  /\ (Transitioned("TurnStart") /\ inPhase \in Phases) =>
       result = IF inPhase = "ended"
                  THEN Result("active", <<"ClearEndedAt", "UpdateLastInteraction">>)
                  ELSE Result("active", <<"UpdateLastInteraction">>)
  /\ (Applied /\ pre.phase = "ended"
        /\ result = Result("active", <<"ClearEndedAt", "UpdateLastInteraction">>)) =>
       (state.phase = "active" /\ state.endedAt = NoTime)

C7_Witness ==
  /\ Applied
  /\ pre.phase = "ended"
  /\ pre.endedAt # NoTime
  /\ result = transition("ended", "TurnStart", NoCtx)
  /\ state.phase = "active"
  /\ state.endedAt = NoTime

\* C8: a SessionStart on an active session returns (active,
\* [WarnStaleSession]) and nothing else; applying it, with a handler that does
\* not mutate the state, leaves phase, lastInteractionTime, endedAt and
\* filesTouched as they were, whether or not the handler throws.
C8_DuplicateStart ==
  /\ (Transitioned("SessionStart") /\ inPhase = "active") =>
       result = Result("active", <<"WarnStaleSession">>)
  /\ \A ctx \in Contexts :
       (Applied /\ pre.phase = "active"
          /\ result = transition("active", "SessionStart", ctx)) =>
         /\ state.phase = pre.phase
         /\ state.lastInteractionTime = pre.lastInteractionTime
         /\ state.endedAt = pre.endedAt
         /\ state.filesTouched = pre.filesTouched

C8_Witness ==
  /\ Applied
  /\ pre.phase = "active"
  /\ pre.lastInteractionTime # now
  /\ pre.endedAt # NoTime
  /\ result = transition("active", "SessionStart", NoCtx)
  /\ Len(calls) = 1
  /\ calls[1].action = "WarnStaleSession"
  /\ state = pre

\* C9: applyTransition invokes the handler-backed actions in list order and
\* stops at the first failure: a handler is invoked iff no handler before it
\* threw, the returned error is that of the first handler that threw, and
\* null is returned only when no handler threw.
C9_StopAtFirstError ==
  op \in {"applying", "applied"} =>
    /\ \A k \in 1..Len(calls) :
         /\ calls[k].index \in HandlerIdx
         /\ calls[k].action = result.actions[calls[k].index]
         /\ k > 1 => calls[k - 1].index < calls[k].index
         /\ calls[k].threw <=> (calls[k].index = err)
    /\ err = NoError => Invoked = HandlerIdx
    /\ err # NoError =>
         /\ err \in HandlerIdx
         /\ Invoked = {i \in HandlerIdx : i <= err}

C9_Witness ==
  /\ Applied
  /\ err = 1
  /\ HandlerIdx = {1, 2}
  /\ Len(calls) = 1

\* C10: the common field mutations run unconditionally: whatever the handlers
\* do, on return the phase is newPhase, lastInteractionTime is the clock
\* reading if the list holds UpdateLastInteraction and endedAt is cleared if
\* it holds ClearEndedAt; fields whose action is absent are untouched.
C10_CommonActionsAlwaysRun ==
  Applied =>
    /\ state.phase = result.newPhase
    /\ state.lastInteractionTime =
         IF Has("UpdateLastInteraction") THEN now ELSE pre.lastInteractionTime
    /\ state.endedAt = IF Has("ClearEndedAt") THEN NoTime ELSE pre.endedAt
    /\ state.filesTouched = pre.filesTouched

C10_Witness ==
  /\ Applied
  /\ err = 1
  /\ result.actions = <<"Condense", "UpdateLastInteraction">>
  /\ result.newPhase # pre.phase
  /\ state.phase = result.newPhase
  /\ pre.lastInteractionTime < now
  /\ state.lastInteractionTime = now

\* Some action before position i of the list given to applyTransition is `action`.
Before(i, action) == \E j \in 1..(i - 1) : result.actions[j] = action

\* C11 as stated: the common field mutations are applied first and the
\* handlers run only then, so every handler is given a state whose
\* lastInteractionTime is already the updated one and whose endedAt is
\* already cleared.
C11_Original ==
  Applied =>
    \A k \in 1..Len(calls) :
      /\ Has("UpdateLastInteraction") =>
           calls[k].seen.lastInteractionTime = state.lastInteractionTime
      /\ Has("ClearEndedAt") => calls[k].seen.endedAt = NoTime

\* C11 amended: the actions are applied in list order. Every handler is given
\* a state whose phase is already newPhase and on which exactly the common
\* actions that precede it in the list have acted: with no earlier
\* UpdateLastInteraction it sees the old lastInteractionTime, with no earlier
\* ClearEndedAt the old endedAt.
C11_ListOrder ==
  op \in {"applying", "applied"} =>
    \A k \in 1..Len(calls) :
      LET i == calls[k].index
          seen == calls[k].seen
      IN /\ seen.phase = result.newPhase
         /\ seen.filesTouched = pre.filesTouched
         /\ seen.endedAt = IF Before(i, "ClearEndedAt") THEN NoTime ELSE pre.endedAt
         /\ IF Before(i, "UpdateLastInteraction")
              THEN seen.lastInteractionTime \in 1..now
              ELSE seen.lastInteractionTime = pre.lastInteractionTime

C11_Witness ==
  /\ Applied
  /\ result = transition("idle", "GitCommit", NoCtx)
  /\ pre.phase = "idle"
  /\ Len(calls) = 1
  /\ calls[1].action = "Condense"
  /\ calls[1].seen.lastInteractionTime = NoTime
  /\ state.lastInteractionTime = now

\* applyTransition has returned an error from the result of a GitCommit or
\* Compaction event on the phase the state had.
CondenseFailed ==
  /\ Applied
  /\ err # NoError
  /\ \E event \in {"GitCommit", "Compaction"}, ctx \in Contexts :
       result = transition(pre.phase, event, ctx)

\* C12 as stated: when the handler of a GitCommit- or Compaction-triggered
\* transition fails, phase, lastInteractionTime and endedAt are as before.
C12_Original ==
  CondenseFailed =>
    /\ state.phase = pre.phase
    /\ state.lastInteractionTime = pre.lastInteractionTime
    /\ state.endedAt = pre.endedAt

\* C12 amended: when that handler fails, phase, endedAt and filesTouched are
\* as before the event, but lastInteractionTime has still been updated to the
\* clock reading; the error is returned.
C12_FailedCondenseStillTouches ==
  CondenseFailed =>
    /\ state.phase = pre.phase
    /\ state.endedAt = pre.endedAt
    /\ state.filesTouched = pre.filesTouched
    /\ state.lastInteractionTime = now
    /\ err = 1

C12_Witness ==
  /\ CondenseFailed
  /\ result = transition("active", "Compaction", NoCtx)
  /\ pre.lastInteractionTime = NoTime
  /\ pre.endedAt # NoTime
  /\ state.lastInteractionTime = now

\* C13: phaseFromString maps 'active' and the retired 'active_committed' to
\* active, 'idle' to idle, 'ended' to ended and every other value to idle; it
\* is idempotent; and transition called with an unrecognised phase returns
\* what the idle table returns for the same event and context.
C13_PhaseNormalisation ==
  op = "transition" =>
    /\ phaseFromString(inPhase) =
         IF inPhase \in {"active", "active_committed"} THEN "active"
         ELSE IF inPhase = "ended" THEN "ended"
         ELSE "idle"
    /\ phaseFromString(phaseFromString(inPhase)) = phaseFromString(inPhase)
    /\ inPhase \notin (Phases \cup {"active_committed"}) =>
         result = transitionFromIdle(inEvent, inCtx)
    /\ inPhase = "active_committed" => result = transitionFromActive(inEvent, inCtx)

C13_Witness ==
  /\ Transitioned("TurnStart")
  /\ inPhase = "undefined"
  /\ result = Result("active", <<"UpdateLastInteraction">>)

\* ======================================================== attribution engine
\* src/unnamed/part_007 (attribution logic) and countLines of
\* src/src/strategy/types.ts. A string is a sequence of characters.

\* Longest string given to diffLines.
MaxStrLen == 3

\* The newline character.
NL == "\n"

Chars == {"a", "b", NL}

Strings == UNION {[1..n -> Chars] : n \in 0..MaxStrLen}

Min(x, y) == IF x <= y THEN x ELSE y
Max(x, y) == IF x >= y THEN x ELSE y

\* String.prototype.endsWith('\n')
endsWithNL(content) == Len(content) > 0 /\ content[Len(content)] = NL

\* countLines: 0 for the empty string, else the number of newlines, plus one
\* if the string does not end with a newline.
countLines(content) ==
  IF content = <<>>
    THEN 0
    ELSE Cardinality({i \in 1..Len(content) : content[i] = NL})
         + (IF endsWithNL(content) THEN 0 ELSE 1)

\* String.prototype.split('\n'): the pieces between newlines, empty pieces
\* included (the empty string gives one empty piece).
RECURSIVE splitLoop(_, _, _, _)
splitLoop(content, i, piece, pieces) ==
  IF i > Len(content)
    THEN Append(pieces, piece)
    ELSE IF content[i] = NL
      THEN splitLoop(content, i + 1, <<>>, Append(pieces, piece))
      ELSE splitLoop(content, i + 1, Append(piece, content[i]), pieces)

split(content) == splitLoop(content, 1, <<>>, <<>>)

\* oldLines / newLines of diffLines: the pieces, without the trailing empty
\* piece a terminal newline leaves.
splitLines(content) ==
  LET pieces == split(content) IN
  IF pieces[Len(pieces)] = <<>> /\ endsWithNL(content)
    THEN SubSeq(pieces, 1, Len(pieces) - 1)
    ELSE pieces

\* Map lookup with default 0: how many times `line` occurs in `lines`.
occurrences(lines, line) == Cardinality({i \in 1..Len(lines) : lines[i] = line})

\* Mutant: a new line is unchanged whenever the old lines hold a copy of it,
\* matched before or not.
RECURSIVE matchLoop_anyCopy(_, _, _, _, _)
matchLoop_anyCopy(oldLines, newLines, i, matched, unchanged) ==
  IF i > Len(newLines)
    THEN unchanged
    ELSE IF occurrences(oldLines, newLines[i]) > 0
      THEN matchLoop_anyCopy(oldLines, newLines, i + 1, matched, unchanged + 1)
      ELSE matchLoop_anyCopy(oldLines, newLines, i + 1, matched, unchanged)

\* The loop over newLines of diffLines: a new line is unchanged while the old
\* lines hold more copies of it than have been matched so far. `matched`
\* lists the lines matched so far (the map matchedOld).
RECURSIVE matchLoop(_, _, _, _, _)
matchLoop(oldLines, newLines, i, matched, unchanged) ==
  IF i > Len(newLines)
    THEN unchanged
    ELSE LET line == newLines[i]
             available == occurrences(oldLines, line) - occurrences(matched, line)
         IN IF available > 0
              THEN matchLoop(oldLines, newLines, i + 1, Append(matched, line), unchanged + 1)
              ELSE matchLoop(oldLines, newLines, i + 1, matched, unchanged)

DiffResult(unchanged, added, removed) ==
  [unchanged |-> unchanged, added |-> added, removed |-> removed]

\* The general case of diffLines (lines 37-70).
diffLinesGeneral(oldContent, newContent) ==
  LET oldLines == splitLines(oldContent)
      newLines == splitLines(newContent)
      unchanged == matchLoop(oldLines, newLines, 1, <<>>, 0)
  IN DiffResult(unchanged, Len(newLines) - unchanged, Len(oldLines) - unchanged)

\* Mutant: the early return for an empty old content is missing.
diffLines_noEmptyOld(oldContent, newContent) ==
  IF oldContent = newContent THEN DiffResult(countLines(newContent), 0, 0)
  ELSE IF newContent = <<>> THEN DiffResult(0, 0, countLines(oldContent))
  ELSE diffLinesGeneral(oldContent, newContent)

diffLines(oldContent, newContent) ==
  IF oldContent = newContent THEN DiffResult(countLines(newContent), 0, 0)
  ELSE IF oldContent = <<>> THEN DiffResult(0, countLines(newContent), 0)
  ELSE IF newContent = <<>> THEN DiffResult(0, 0, countLines(oldContent))
  ELSE diffLinesGeneral(oldContent, newContent)

\* ------------------------------------ calculateAttributionWithAccumulated

\* Largest line count a prompt attribution carries, and largest accumulated
\* count the model follows.
MaxUserLines == 1

\* Paths of the files in the three snapshots.
AFiles == {"f", "g"}

\* Contents a file has in a snapshot.
AttrContents == {<<>>, <<"a", NL>>, <<"b", NL>>, <<"a", NL, "b", NL>>}

\* Map<string, string> over the paths in D: a path may be absent.
FileMaps(D) == UNION {[d -> AttrContents] : d \in SUBSET D}

\* files.get(filePath) ?? ''
contentOf(files, filePath) ==
  IF filePath \in DOMAIN files THEN files[filePath] ELSE <<>>

RECURSIVE SumOver(_, _)
SumOver(f, S) ==
  IF S = {} THEN 0
  ELSE LET x == CHOOSE y \in S : TRUE IN f[x] + SumOver(f, S \ {x})

\* type PromptAttribution, the fields the commit-time computation reads. A
\* path without an entry in userAddedPerFile counts 0.
PromptAttributions ==
  [userLinesRemoved : 0..MaxUserLines, userAddedPerFile : [AFiles -> 0..MaxUserLines]]

\* accumulatedUserRemoved = 0 and an empty accumulatedUserAddedPerFile.
NoAccumulated == [removed |-> 0, addedPerFile |-> [f \in AFiles |-> 0]]

\* One iteration of the loop over promptAttributions (lines 123-131).
accumulatePrompt(acc, pa) ==
  [removed |-> acc.removed + pa.userLinesRemoved,
   addedPerFile |-> [f \in AFiles |-> acc.addedPerFile[f] + pa.userAddedPerFile[f]]]

getAllChangedFiles(tree1, tree2) ==
  {path \in DOMAIN tree1 : path \notin DOMAIN tree2 \/ tree1[path] # tree2[path]}
    \cup {path \in DOMAIN tree2 : path \notin DOMAIN tree1}

\* Mutant: the post-checkpoint edits are diffed from the base, not from the
\* last checkpoint.
touchedFileStats_fromBase(baseFiles, shadowFiles, headFiles, filePath) ==
  LET baseContent == contentOf(baseFiles, filePath)
      shadowContent == contentOf(shadowFiles, filePath)
      headContent == contentOf(headFiles, filePath)
      work == diffLines(baseContent, shadowContent)
      post == diffLines(baseContent, headContent)
  IN [workAdded |-> work.added, postUserAdded |-> post.added,
      postUserRemoved |-> post.removed]

\* Body of the loop over filesTouched (lines 139-156), for one file.
touchedFileStats(baseFiles, shadowFiles, headFiles, filePath) ==
  LET baseContent == contentOf(baseFiles, filePath)
      shadowContent == contentOf(shadowFiles, filePath)
      headContent == contentOf(headFiles, filePath)
      work == diffLines(baseContent, shadowContent)
      post == diffLines(shadowContent, headContent)
  IN [workAdded |-> work.added, postUserAdded |-> post.added,
      postUserRemoved |-> post.removed]

\* estimateUserSelfModifications: postCheckpointUserRemovedPerFile holds the
\* files with a positive count only.
estimateUserSelfModifications(accumulatedUserAddedPerFile, postCheckpointUserRemovedPerFile) ==
  SumOver([filePath \in DOMAIN postCheckpointUserRemovedPerFile |->
             Min(postCheckpointUserRemovedPerFile[filePath],
                 accumulatedUserAddedPerFile[filePath])],
          DOMAIN postCheckpointUserRemovedPerFile)

\* Lines 133-205: the sums over the files and the user totals.
attributionTotals(baseFiles, shadowFiles, headFiles, filesTouched, acc) ==
  LET stats == [f \in filesTouched |->
                  touchedFileStats(baseFiles, shadowFiles, headFiles, f)]
      totalAgentAndUserWork == SumOver([f \in filesTouched |-> stats[f].workAdded], filesTouched)
      postCheckpointUserAdded ==
        SumOver([f \in filesTouched |-> stats[f].postUserAdded], filesTouched)
      postCheckpointUserRemoved ==
        SumOver([f \in filesTouched |-> stats[f].postUserRemoved], filesTouched)
      removedFiles == {f \in filesTouched : stats[f].postUserRemoved > 0}
      postCheckpointUserRemovedPerFile == [f \in removedFiles |-> stats[f].postUserRemoved]
      nonAgentFiles == getAllChangedFiles(baseFiles, headFiles)
      committedNonAgentSet == nonAgentFiles \ filesTouched
      allUserEditsToNonAgentFiles ==
        SumOver([f \in committedNonAgentSet |->
                   diffLines(contentOf(baseFiles, f), contentOf(headFiles, f)).added],
                committedNonAgentSet)
      accumulatedToAgentFiles == SumOver(acc.addedPerFile, AFiles \cap filesTouched)
      accumulatedToCommittedNonAgentFiles ==
        SumOver(acc.addedPerFile, AFiles \cap committedNonAgentSet)
      postToNonAgentFiles ==
        Max(0, allUserEditsToNonAgentFiles - accumulatedToCommittedNonAgentFiles)
      relevantAccumulatedUser == accumulatedToAgentFiles + accumulatedToCommittedNonAgentFiles
  IN [totalAgentAdded |-> Max(0, totalAgentAndUserWork - accumulatedToAgentFiles),
      totalUserAdded |-> relevantAccumulatedUser + postCheckpointUserAdded + postToNonAgentFiles,
      totalUserRemoved |-> acc.removed + postCheckpointUserRemoved,
      userSelfModified |->
        estimateUserSelfModifications(acc.addedPerFile, postCheckpointUserRemovedPerFile)]

\* agentPercentage is a floating-point number: it is kept exact, as the
\* fraction num / den.
Percentage(agentLinesInCommit, totalCommitted) ==
  IF totalCommitted > 0
    THEN [num |-> agentLinesInCommit * 100, den |-> totalCommitted]
    ELSE [num |-> 0, den |-> 1]

InitialAttribution(agentLines, humanAdded, humanModified, humanRemoved, totalCommitted) ==
  [kind |-> "attribution",
   agentLines |-> agentLines,
   humanAdded |-> humanAdded,
   humanModified |-> humanModified,
   humanRemoved |-> humanRemoved,
   totalCommitted |-> totalCommitted,
   agentPercentage |-> Percentage(agentLines, totalCommitted)]

\* Mutant: agentLinesInCommit is not floored at 0.
finalSplit_noFloor(t) ==
  LET totalHumanModified == Min(t.totalUserAdded, t.totalUserRemoved)
      humanModifiedAgent == Max(0, totalHumanModified - t.userSelfModified)
      pureUserAdded == t.totalUserAdded - totalHumanModified
      pureUserRemoved == t.totalUserRemoved - totalHumanModified
      sum == t.totalAgentAdded + pureUserAdded - pureUserRemoved
      totalCommitted == IF sum <= 0 THEN Max(0, t.totalAgentAdded) ELSE sum
      agentLinesInCommit == t.totalAgentAdded - pureUserRemoved - humanModifiedAgent
  IN InitialAttribution(agentLinesInCommit, pureUserAdded, totalHumanModified,
                        pureUserRemoved, totalCommitted)

\* Mutant: humanModified reports the modifications net of the user's
\* self-modifications.
finalSplit_netModified(t) ==
  LET totalHumanModified == Min(t.totalUserAdded, t.totalUserRemoved)
      humanModifiedAgent == Max(0, totalHumanModified - t.userSelfModified)
      pureUserAdded == t.totalUserAdded - totalHumanModified
      pureUserRemoved == t.totalUserRemoved - totalHumanModified
      sum == t.totalAgentAdded + pureUserAdded - pureUserRemoved
      totalCommitted == IF sum <= 0 THEN Max(0, t.totalAgentAdded) ELSE sum
      agentLinesInCommit == Max(0, t.totalAgentAdded - pureUserRemoved - humanModifiedAgent)
  IN InitialAttribution(agentLinesInCommit, pureUserAdded, humanModifiedAgent,
                        pureUserRemoved, totalCommitted)

\* Lines 198-231: the final split.
finalSplit(t) ==
  LET totalHumanModified == Min(t.totalUserAdded, t.totalUserRemoved)
      humanModifiedAgent == Max(0, totalHumanModified - t.userSelfModified)
      pureUserAdded == t.totalUserAdded - totalHumanModified
      pureUserRemoved == t.totalUserRemoved - totalHumanModified
      sum == t.totalAgentAdded + pureUserAdded - pureUserRemoved
      totalCommitted == IF sum <= 0 THEN Max(0, t.totalAgentAdded) ELSE sum
      agentLinesInCommit == Max(0, t.totalAgentAdded - pureUserRemoved - humanModifiedAgent)
  IN InitialAttribution(agentLinesInCommit, pureUserAdded, totalHumanModified,
                        pureUserRemoved, totalCommitted)

\* calculateAttributionWithAccumulated after its loop over promptAttributions
\* has summed them into `acc`.
calculateAttributionWithAccumulated(baseFiles, shadowFiles, headFiles, filesTouched, acc) ==
  IF filesTouched = {}
    THEN [kind |-> "null"]
    ELSE finalSplit(attributionTotals(baseFiles, shadowFiles, headFiles, filesTouched, acc))

\* The three-snapshot scenario: one touched file with base a,b,c, last
\* checkpoint a,b,c,d and head a,b,c,d,e.
ScenarioBase == [f \in {"f"} |-> <<"a", NL, "b", NL, "c", NL>>]
ScenarioShadow == [f \in {"f"} |-> <<"a", NL, "b", NL, "c", NL, "d", NL>>]
ScenarioHead == [f \in {"f"} |-> <<"a", NL, "b", NL, "c", NL, "d", NL, "e", NL>>]

\* The snapshots a call is given, for the files it touches: the last
\* checkpoint is read for the touched files only.
Snapshots(filesTouched) ==
  [base : FileMaps(AFiles), shadow : FileMaps(filesTouched), head : FileMaps(AFiles)]
    \cup (IF filesTouched = {"f"}
            THEN {[base |-> ScenarioBase, shadow |-> ScenarioShadow, head |-> ScenarioHead]}
            ELSE {})

\* ------------------------------------------------ the engine as a machine

\* The state machine at rest, with a fresh session.
MachineIdle ==
  /\ state = [phase |-> "idle", filesTouched |-> {},
              lastInteractionTime |-> NoTime, endedAt |-> NoTime]
  /\ now = 1
  /\ op = "init"
  /\ inPhase = "idle"
  /\ inEvent = "TurnEnd"
  /\ inCtx = NoCtx
  /\ result = Result("idle", <<>>)
  /\ pre = state
  /\ calls = <<>>
  /\ err = NoError

\* The variables the attribution engine does not touch.
attrFrame == <<vars, treeVars, storeVars, overlapVars, logVars, lifeVars,
               normVars, maintVars>>

AttrInit == MachineIdle /\ AttrReady /\ TreeReady /\ StoreReady
  /\ OverlapReady /\ LogReady /\ LifeReady /\ NormReady /\ MaintReady

\* A call diffLines(oldContent, newContent).
DiffLinesCall ==
  /\ aOp = "ready"
  /\ \E oldContent \in Strings, newContent \in Strings :
       /\ aOp' = "diffLines"
       /\ aIn' = [kind |-> "diffLines", old |-> oldContent, new |-> newContent]
       /\ aOut' = diffLines(oldContent, newContent)
       /\ UNCHANGED aAcc
  /\ UNCHANGED attrFrame

\* calculateAttributionWithAccumulated is entered: with no touched file it
\* returns null at once, else it starts the loop over promptAttributions.
AttributionEnter ==
  /\ aOp = "ready"
  /\ \E filesTouched \in SUBSET AFiles :
       /\ aIn' = [kind |-> "attribution", filesTouched |-> filesTouched]
       /\ aAcc' = NoAccumulated
       /\ IF filesTouched = {}
            THEN /\ aOp' = "attribution"
                 /\ aOut' = calculateAttributionWithAccumulated(<<>>, <<>>, <<>>, {}, NoAccumulated)
            ELSE /\ aOp' = "prompts"
                 /\ UNCHANGED aOut
  /\ UNCHANGED attrFrame

\* One iteration of the loop over promptAttributions, on the next element.
AttributionPrompt ==
  /\ aOp = "prompts"
  /\ \E pa \in PromptAttributions :
       LET acc == accumulatePrompt(aAcc, pa) IN
       /\ acc.removed <= MaxUserLines
       /\ \A f \in AFiles : acc.addedPerFile[f] <= MaxUserLines
       /\ aAcc' = acc
  /\ UNCHANGED <<aOp, aIn, aOut>>
  /\ UNCHANGED attrFrame

\* The rest of the function, on the three snapshots.
AttributionFinish ==
  /\ aOp = "prompts"
  /\ \E snap \in Snapshots(aIn.filesTouched) :
       /\ aOp' = "attribution"
       /\ aIn' = [kind |-> "attribution", filesTouched |-> aIn.filesTouched,
                  baseFiles |-> snap.base, shadowFiles |-> snap.shadow,
                  headFiles |-> snap.head]
       /\ aOut' = calculateAttributionWithAccumulated(snap.base, snap.shadow, snap.head,
                                                      aIn.filesTouched, aAcc)
       /\ UNCHANGED aAcc
  /\ UNCHANGED attrFrame

\* The caller takes the returned value: the engine keeps nothing between calls.
AttrReturn ==
  /\ aOp \in {"diffLines", "attribution"}
  /\ aOp' = "ready"
  /\ aIn' = [kind |-> "none"]
  /\ aAcc' = [kind |-> "none"]
  /\ aOut' = [kind |-> "none"]
  /\ UNCHANGED attrFrame

AttrNext ==
  \/ DiffLinesCall
  \/ AttributionEnter
  \/ AttributionPrompt
  \/ AttributionFinish
  \/ AttrReturn

SpecAttr == AttrInit /\ [][AttrNext]_allVars

\* C20: for every string s, diffLines(s, s) = (countLines(s), 0, 0),
\* diffLines('', s) = (0, countLines(s), 0) and
\* diffLines(s, '') = (0, 0, countLines(s)).
C20_DiffLinesDegenerate ==
  aOp = "diffLines" =>
    /\ aIn.old = aIn.new => aOut = DiffResult(countLines(aIn.new), 0, 0)
    /\ aIn.old = <<>> => aOut = DiffResult(0, countLines(aIn.new), 0)
    /\ aIn.new = <<>> => aOut = DiffResult(0, 0, countLines(aIn.old))

C20_Witness ==
  /\ aOp = "diffLines"
  /\ aIn.old = <<>>
  /\ aIn.new = <<NL, "a">>
  /\ aOut = DiffResult(0, 2, 0)

\* The lines countLines counts: none for the empty string.
linesOf(content) == IF content = <<>> THEN <<>> ELSE splitLines(content)

\* The two contents have the same lines, each as many times.
sameLines(c1, c2) ==
  LET l1 == linesOf(c1)
      l2 == linesOf(c2)
  IN /\ Len(l1) = Len(l2)
     /\ \A i \in 1..Len(l1) : occurrences(l1, l1[i]) = occurrences(l2, l1[i])

\* The size of the intersection of the multisets of the lines of two contents.
commonLines(c1, c2) ==
  LET l1 == linesOf(c1)
      l2 == linesOf(c2)
      distinct == {l1[i] : i \in 1..Len(l1)}
  IN SumOver([l \in distinct |-> Min(occurrences(l1, l), occurrences(l2, l))], distinct)

Attributed == aOp = "attribution" /\ aOut.kind = "attribution"

\* The sums of the call that has returned.
Totals ==
  attributionTotals(aIn.baseFiles, aIn.shadowFiles, aIn.headFiles, aIn.filesTouched, aAcc)

\* C17: every InitialAttribution returned has agentLines, humanAdded,
\* humanModified, humanRemoved and totalCommitted >= 0 and agentLines <=
\* totalCommitted, so 0 <= agentPercentage <= 100, and agentPercentage is 0
\* when totalCommitted is 0.
C17_AttributionRanges ==
  Attributed =>
    /\ aOut.agentLines >= 0
    /\ aOut.humanAdded >= 0
    /\ aOut.humanModified >= 0
    /\ aOut.humanRemoved >= 0
    /\ aOut.totalCommitted >= 0
    /\ aOut.agentLines <= aOut.totalCommitted
    /\ aOut.agentPercentage.den > 0
    /\ 0 <= aOut.agentPercentage.num
    /\ aOut.agentPercentage.num <= 100 * aOut.agentPercentage.den
    /\ (aOut.totalCommitted = 0 => aOut.agentPercentage.num = 0)

\* The user removed more than the agent added: the unfloored difference is
\* negative, and nothing is committed.
C17_Witness ==
  /\ Attributed
  /\ aAcc.removed > 0
  /\ aOut.agentLines = 0
  /\ aOut.totalCommitted = 0
  /\ aOut.agentPercentage.num = 0
  /\ LET t == Totals IN
       t.totalAgentAdded - aOut.humanRemoved
         - Max(0, aOut.humanModified - t.userSelfModified) < 0

\* The call was given the three-snapshot scenario and no prompt attributions.
InScenario ==
  /\ Attributed
  /\ aIn.filesTouched = {"f"}
  /\ aIn.baseFiles = ScenarioBase
  /\ aIn.shadowFiles = ScenarioShadow
  /\ aIn.headFiles = ScenarioHead
  /\ aAcc = NoAccumulated

\* C18: one touched file with base a,b,c, last checkpoint a,b,c,d and head
\* a,b,c,d,e, no prompt attributions: agentLines = 1, humanAdded = 1,
\* totalCommitted = 2 and agentPercentage = 50.
C18_ThreeSnapshots ==
  InScenario =>
    /\ aOut.agentLines = 1
    /\ aOut.humanAdded = 1
    /\ aOut.totalCommitted = 2
    /\ aOut.agentPercentage.num = 50 * aOut.agentPercentage.den

C18_Witness ==
  /\ InScenario
  /\ aOut.agentLines = 1
  /\ aOut.humanModified = 0
  /\ aOut.humanRemoved = 0

\* selfModified: the sum over the files of min(lines removed from the file
\* after the last checkpoint, accumulated user-added lines in the file).
SelfModified ==
  SumOver([f \in aIn.filesTouched |->
             Min(touchedFileStats(aIn.baseFiles, aIn.shadowFiles, aIn.headFiles, f).postUserRemoved,
                 aAcc.addedPerFile[f])],
          aIn.filesTouched)

\* C19 as stated: humanModified = min(totalUserAdded, totalUserRemoved) -
\* selfModified.
C19_Original ==
  Attributed =>
    LET t == Totals IN
    aOut.humanModified = Min(t.totalUserAdded, t.totalUserRemoved) - SelfModified

\* C19: humanModified = min(totalUserAdded, totalUserRemoved), the total with
\* nothing subtracted; selfModified is subtracted, floored at 0, only from the
\* modifications that are charged to the agent's lines: agentLines =
\* max(0, totalAgentAdded - humanRemoved - max(0, humanModified - selfModified)).
C19_HumanModifiedTotal ==
  Attributed =>
    LET t == Totals
        selfModified == SelfModified
    IN /\ t.userSelfModified = selfModified
       /\ aOut.humanModified = Min(t.totalUserAdded, t.totalUserRemoved)
       /\ aOut.agentLines =
            Max(0, t.totalAgentAdded - aOut.humanRemoved
                     - Max(0, aOut.humanModified - selfModified))

\* The user removed, after the last checkpoint, a line they had added before it.
C19_Witness ==
  /\ Attributed
  /\ aOut.humanModified > 0
  /\ aOut.agentLines > 0
  /\ SelfModified > 0
  /\ LET t == Totals IN aOut.humanModified = Min(t.totalUserAdded, t.totalUserRemoved)

\* ============================================================ tree builder

\* Number of distinct blobs a checkpoint's metadata can be.
MaxBlobs == 2

CHECKPOINT_ID_LENGTH == 12

\* Git objects are content-addressed: a hash is modelled by the object it
\* names. A blob is named by its number, a tree by its entries.
Blob(n) == [type |-> "blob", id |-> n, entries |-> {}]
Tree(entries) == [type |-> "tree", id |-> 0, entries |-> entries]

TreeEntry(mode, type, hash, name) ==
  [mode |-> mode, type |-> type, hash |-> hash, name |-> name]

\* lsTree(rev): the entries of a tree; it fails on anything that is not a tree.
lsTreeThrows(rev) == rev.type # "tree"
lsTree(rev) == rev.entries

\* mktree(entries): the hash of the tree with these entries.
mktree(entries) == Tree(entries)

\* subtreePath.split('/').filter(Boolean): the non-empty pieces between slashes.
RECURSIVE pathPartsLoop(_, _, _, _)
pathPartsLoop(subtreePath, i, piece, parts) ==
  IF i > Len(subtreePath)
    THEN IF piece = <<>> THEN parts ELSE Append(parts, piece)
    ELSE IF subtreePath[i] = "/"
      THEN pathPartsLoop(subtreePath, i + 1, <<>>,
                         IF piece = <<>> THEN parts ELSE Append(parts, piece))
      ELSE pathPartsLoop(subtreePath, i + 1, Append(piece, subtreePath[i]), parts)

pathParts(subtreePath) == pathPartsLoop(subtreePath, 1, <<>>, <<>>)

\* id.slice(0, 2) + '/' + id.slice(2)
checkpointIDPath(id) == SubSeq(id, 1, 2) \o <<"/">> \o SubSeq(id, 3, Len(id))

\* existingEntries of updateSubtreeRecursive: empty for no tree and when
\* lsTree fails.
existingEntriesOf(currentTree) ==
  IF currentTree = NoTree \/ lsTreeThrows(currentTree) THEN {} ELSE lsTree(currentTree)

\* Mutant: the shard directory is always built anew.
childTreeOf_fresh(existingEntries, targetName) == NoTree

\* existingEntry?.hash ?? ''
childTreeOf(existingEntries, targetName) ==
  IF \E e \in existingEntries : e.name = targetName
    THEN (CHOOSE e \in existingEntries : e.name = targetName).hash
    ELSE NoTree

mergeTreesKeepExisting(existingTreeHash, newTreeHash) ==
  LET existingEntries == lsTree(existingTreeHash)
      existingNames == {e.name : e \in existingEntries}
  IN mktree(existingEntries \cup {e \in lsTree(newTreeHash) : e.name \notin existingNames})

\* depth counts from 1 here.
RECURSIVE updateSubtreeRecursive(_, _, _, _, _)
updateSubtreeRecursive(currentTree, parts, depth, newSubtreeHash, mergeMode) ==
  LET targetName == parts[depth]
      isLeaf == depth = Len(parts)
      existingEntries == existingEntriesOf(currentTree)
      filtered == {e \in existingEntries : e.name # targetName}
  IN IF isLeaf
       THEN LET mergeable ==
                  /\ mergeMode = "MergeKeepExisting"
                  /\ \E e \in existingEntries : e.name = targetName /\ e.type = "tree"
                finalHash ==
                  IF mergeable
                    THEN mergeTreesKeepExisting(childTreeOf(existingEntries, targetName),
                                                newSubtreeHash)
                    ELSE newSubtreeHash
            IN mktree(filtered \cup {TreeEntry("040000", "tree", finalHash, targetName)})
       ELSE LET updatedChildHash ==
                  updateSubtreeRecursive(childTreeOf(existingEntries, targetName),
                                         parts, depth + 1, newSubtreeHash, mergeMode)
            IN mktree(filtered \cup {TreeEntry("040000", "tree", updatedChildHash, targetName)})

updateSubtree(rootTree, subtreePath, newSubtreeHash, mergeMode) ==
  LET parts == pathParts(subtreePath) IN
  IF parts = <<>>
    THEN newSubtreeHash
    ELSE updateSubtreeRecursive(rootTree, parts, 1, newSubtreeHash, mergeMode)

\* A checkpoint ID: a shard of two characters, zeros, and a last character.
CheckpointID(shard, last) ==
  shard \o [i \in 1..(CHECKPOINT_ID_LENGTH - 3) |-> "0"] \o <<last>>

\* The IDs written: two share a shard.
CheckpointIDs ==
  {CheckpointID(<<"a", "a">>, "1"), CheckpointID(<<"a", "a">>, "2"),
   CheckpointID(<<"a", "b">>, "1")}

\* The subtree of a checkpoint: its metadata blob.
CheckpointTree(n) == Tree({TreeEntry("100644", "blob", Blob(n), <<"m", "e", "t", "a">>)})

CheckpointTrees == {CheckpointTree(n) : n \in 1..MaxBlobs}

\* A checkpoint committed before, in shard aa.
OlderPath == pathParts(checkpointIDPath(CheckpointID(<<"a", "a">>, "9")))

\* The branch before the writes: absent; holding one file; holding a file
\* where shard aa will go; holding shard aa with an older checkpoint and a file.
InitialRoots ==
  {NoTree,
   Tree({TreeEntry("100644", "blob", Blob(0), <<"R">>)}),
   Tree({TreeEntry("100644", "blob", Blob(0), <<"a", "a">>)}),
   Tree({TreeEntry("100644", "blob", Blob(0), <<"R">>),
         TreeEntry("040000", "tree",
                   Tree({TreeEntry("040000", "tree", CheckpointTree(0), OlderPath[2]),
                         TreeEntry("100755", "blob", Blob(0), <<"x">>)}),
                   <<"a", "a">>)})}

\* The variables the tree builder does not touch.
treeFrame == <<vars, attrVars, storeVars, overlapVars, logVars, lifeVars,
               normVars, maintVars>>

TreeInit ==
  /\ MachineIdle
  /\ AttrReady
  /\ StoreReady
  /\ OverlapReady
  /\ LogReady
  /\ LifeReady /\ NormReady /\ MaintReady
  /\ tRoot \in InitialRoots
  /\ tPrev = NoTree
  /\ tLast = [kind |-> "none"]
  /\ tWritten = {}

\* A committed checkpoint with a new ID is placed at its shard path.
PlaceCheckpoint ==
  /\ \E id \in CheckpointIDs, h \in CheckpointTrees :
       /\ \A w \in tWritten : w.id # id
       /\ tPrev' = tRoot
       /\ tRoot' = updateSubtree(tRoot, checkpointIDPath(id), h, "ReplaceAll")
       /\ tLast' = [kind |-> "write", id |-> id, hash |-> h]
       /\ tWritten' = tWritten \cup {[id |-> id, hash |-> h]}
  /\ UNCHANGED treeFrame

TreeNext == PlaceCheckpoint

SpecTree == TreeInit /\ [][TreeNext]_allVars

\* The entries named `name` in a tree, and the entries under them.
At(tree, name) == {e \in tree.entries : e.name = name}
Under(tree, name) == UNION {e.hash.entries : e \in At(tree, name)}

\* What the path xx/yyyyyyyyyy of a checkpoint ID resolves to in a root tree.
Resolve(root, id) ==
  {e \in Under(root, SubSeq(id, 1, 2)) : e.name = SubSeq(id, 3, Len(id))}

MaxCalls == 2

\* Distinct file sets a working tree can hold: a file set is named by the
\* tree it builds.
MaxContents == 2

Contents == 1..MaxContents

\* The tree built from the working files equals the tree of the branch tip.
treeUnchanged(commits, tip, content) == tip # 0 /\ commits[tip].tree = content

\* Mutant: the ref is set whatever it points to.
refUpdate_blind(ref, expected, new) == [ok |-> TRUE, ref |-> new]

\* The VCS's atomic ref update: it succeeds only if the ref still points to
\* the tip that was read.
refUpdate(ref, expected, new) ==
  IF ref = expected THEN [ok |-> TRUE, ref |-> new] ELSE [ok |-> FALSE, ref |-> ref]

\* Mutant: every call commits.
skipWrite_never(commits, tip, content) == FALSE

\* writeTemporary skips the write when the resulting tree is unchanged from
\* the branch tip.
skipWrite(commits, tip, content) == treeUnchanged(commits, tip, content)

\* The variables the checkpoint store does not touch.
storeFrame == <<vars, attrVars, treeVars, overlapVars, logVars, lifeVars,
                normVars, maintVars>>

StoreInit == MachineIdle /\ AttrReady /\ TreeReady /\ StoreReady
  /\ OverlapReady /\ LogReady /\ LifeReady /\ NormReady /\ MaintReady

\* A hook process calls writeTemporary with the file set of its working tree.
WriteTemporaryCall(w) ==
  /\ sPc[w] = "idle"
  /\ sLocal[w].calls < MaxCalls
  /\ \E content \in Contents :
       sLocal' = [sLocal EXCEPT ![w] =
                    [NoLocal EXCEPT !.content = content, !.calls = sLocal[w].calls + 1]]
  /\ sPc' = [sPc EXCEPT ![w] = "read"]
  /\ UNCHANGED <<sRef, sCommits, sDone>>
  /\ UNCHANGED storeFrame

\* The writer reads the branch tip and builds its tree: an unchanged tree is
\* a skipped write.
ReadTip(w) ==
  /\ sPc[w] = "read"
  /\ IF skipWrite(sCommits, sRef, sLocal[w].content)
       THEN /\ sLocal' = [sLocal EXCEPT ![w].tip = sRef, ![w].skipped = TRUE]
            /\ sPc' = [sPc EXCEPT ![w] = "done"]
       ELSE /\ sLocal' = [sLocal EXCEPT ![w].tip = sRef]
            /\ sPc' = [sPc EXCEPT ![w] = "commit"]
  /\ UNCHANGED <<sRef, sCommits, sDone>>
  /\ UNCHANGED storeFrame

\* The writer creates the commit object, with the tip it read as parent.
CreateCommit(w) ==
  /\ sPc[w] = "commit"
  /\ sCommits' = Append(sCommits, [parent |-> sLocal[w].tip, tree |-> sLocal[w].content])
  /\ sLocal' = [sLocal EXCEPT ![w].commit = Len(sCommits) + 1]
  /\ sPc' = [sPc EXCEPT ![w] = "update"]
  /\ UNCHANGED <<sRef, sDone>>
  /\ UNCHANGED storeFrame

\* The writer moves the ref to its commit; if the ref has moved since it was
\* read, the writer starts again from the new tip.
UpdateRef(w) ==
  /\ sPc[w] = "update"
  /\ LET r == refUpdate(sRef, sLocal[w].tip, sLocal[w].commit) IN
     /\ sRef' = r.ref
     /\ IF r.ok
          THEN /\ sLocal' = [sLocal EXCEPT ![w].advanced = TRUE]
               /\ sPc' = [sPc EXCEPT ![w] = "done"]
               /\ sDone' = sDone \cup {sLocal[w].commit}
          ELSE /\ sLocal' = [sLocal EXCEPT ![w].commit = 0,
                                             ![w].retries = sLocal[w].retries + 1]
               /\ sPc' = [sPc EXCEPT ![w] = "read"]
               /\ UNCHANGED sDone
  /\ UNCHANGED sCommits
  /\ UNCHANGED storeFrame

\* The call returns to the hook process.
WriteTemporaryReturn(w) ==
  /\ sPc[w] = "done"
  /\ sPc' = [sPc EXCEPT ![w] = "idle"]
  /\ UNCHANGED <<sRef, sCommits, sLocal, sDone>>
  /\ UNCHANGED storeFrame

StoreNext ==
  \E w \in Writers :
    \/ WriteTemporaryCall(w)
    \/ ReadTip(w)
    \/ CreateCommit(w)
    \/ UpdateRef(w)
    \/ WriteTemporaryReturn(w)

SpecStore == StoreInit /\ [][StoreNext]_allVars

\* The commits of the branch whose tip is c.
RECURSIVE History(_)
History(c) == IF c = 0 THEN {} ELSE {c} \cup History(sCommits[c].parent)

\* C14: racing writeTemporary calls are both preserved: every commit a call
\* returned (not skipped) is in the history of the shadow branch, whatever
\* the interleaving; a writer whose read tip moved retries on the new tip.
C14_RacingWritesPreserved ==
  /\ \A c \in sDone : c \in History(sRef)
  /\ \A w \in Writers :
       sPc[w] = "done" /\ ~sLocal[w].skipped =>
         /\ sLocal[w].commit \in History(sRef)
         /\ sCommits[sLocal[w].commit].parent = sLocal[w].tip

\* Both writers read the same tip; the second to update found the ref moved,
\* retried, and both commits are in the history.
C14_Witness ==
  /\ \A w \in Writers : sPc[w] = "done" /\ ~sLocal[w].skipped /\ sLocal[w].calls = 1
  /\ \E w \in Writers : sLocal[w].retries = 1
  /\ Cardinality(sDone) = 2
  /\ sDone \subseteq History(sRef)
  /\ Len(sCommits) = 3

\* C15: a call whose file set is unchanged from the branch tip returns
\* skipped = true, makes no commit and does not advance the tip: so does the
\* second of two calls with an unchanged file set.
C15_UnchangedIsSkipped ==
  \A w \in Writers :
    sPc[w] = "done" /\ treeUnchanged(sCommits, sLocal[w].tip, sLocal[w].content) =>
      /\ sLocal[w].skipped
      /\ sLocal[w].commit = 0
      /\ ~sLocal[w].advanced

\* One writer has called twice with the same file set, alone: the first call
\* committed, the second was skipped and the tip is still the first commit.
C15_Witness ==
  /\ sPc["w1"] = "done"
  /\ sLocal["w1"].calls = 2
  /\ sLocal["w1"].skipped
  /\ sLocal["w2"] = NoLocal
  /\ Len(sCommits) = 1
  /\ sRef = 1
  /\ sCommits[1].tree = sLocal["w1"].content
  /\ sDone = {1}

\* ========================================================= content overlap

\* Lines a file content has.
MaxLines == 2

\* Entries filesTouched has.
MaxTouched == 2

\* trimmed.length >= 10
MinSignificantLength == 10

\* The line of n characters c.
Line(c, n) == [i \in 1..n |-> c]

\* String.prototype.trim, on a line: leading and trailing blanks are removed.
Blank == {" ", "\t"}

RECURSIVE trimStart(_)
trimStart(line) ==
  IF line # <<>> /\ Head(line) \in Blank THEN trimStart(Tail(line)) ELSE line

RECURSIVE trimEnd(_)
trimEnd(line) ==
  IF line # <<>> /\ line[Len(line)] \in Blank
    THEN trimEnd(SubSeq(line, 1, Len(line) - 1))
    ELSE line

trim(line) == trimEnd(trimStart(line))

\* Mutant: short lines count too.
extractSignificantLines_all(content) ==
  {trim(split(content)[i]) : i \in 1..Len(split(content))}

extractSignificantLines(content) ==
  LET pieces == split(content) IN
  {trimmed \in {trim(pieces[i]) : i \in 1..Len(pieces)} :
     Len(trimmed) >= MinSignificantLength}

hasSignificantContentOverlap(stagedContent, shadowContent) ==
  LET shadowLines == extractSignificantLines(shadowContent)
      stagedLines == extractSignificantLines(stagedContent)
      isVerySmallFile == Cardinality(shadowLines) < 2 \/ Cardinality(stagedLines) < 2
      requiredMatches == IF isVerySmallFile THEN 1 ELSE 2
      matchCount == Cardinality(stagedLines \cap shadowLines)
  IN IF shadowLines = {} \/ stagedLines = {}
       THEN FALSE
       ELSE matchCount >= requiredMatches

\* A line as written in a file: blanks, the text, blanks.
PoolLine(left, core, right) == [left |-> left, core |-> core, right |-> right]

rawLine(l) == l.left \o l.core \o l.right

\* The lines the contents are made of: three long texts, one of them also
\* indented, a text of 9 characters that blanks make 11 long, and a brace.
LineX == PoolLine(<<>>, Line("x", 10), <<>>)
LineXIndented == PoolLine(<<" ", "\t">>, Line("x", 10), <<>>)
LineY == PoolLine(<<" ">>, Line("y", 10), <<" ">>)
LineW == PoolLine(<<>>, Line("w", 11), <<>>)
LineShort == PoolLine(<<" ">>, Line("z", 9), <<" ">>)
LineBrace == PoolLine(<<>>, <<"{">>, <<>>)

LinePool == {LineX, LineXIndented, LineY, LineW, LineShort, LineBrace}

LineLists == UNION {[1..n -> LinePool] : n \in 0..MaxLines}

\* The content whose lines are `lines`, separated by newlines.
RECURSIVE joinLines(_)
joinLines(lines) ==
  IF lines = <<>> THEN <<>>
  ELSE IF Len(lines) = 1 THEN rawLine(lines[1])
  ELSE rawLine(lines[1]) \o <<NL>> \o joinLines(Tail(lines))

\* gitSafe(['show', rev:path]): the content of the file, or null.
Absent == [present |-> FALSE, content |-> <<>>]
FileAt(content) == [present |-> TRUE, content |-> content]

gitShow(files, filePath) == files[filePath]

\* Paths of the files in the commits.
OFiles == {"f", "g"}

\* Contents of the files: empty; two long lines; the same two lines indented,
\* and a brace; another long line and a brace.
OverlapContents ==
  {<<>>,
   joinLines(<<LineX, LineY>>),
   joinLines(<<LineXIndented, LineY, LineBrace>>),
   joinLines(<<LineW, LineBrace>>)}

\* The files of a commit or of the shadow branch.
CommitFiles == [OFiles -> {Absent} \cup {FileAt(c) : c \in OverlapContents}]

\* parentCommitHash: null for a commit without parent.
NoParent == [exists |-> FALSE, files |-> [f \in OFiles |-> Absent]]
Parents == {NoParent} \cup {[exists |-> TRUE, files |-> files] : files \in CommitFiles}

\* Mutant: a file is never taken for a modified one.
isModifiedFile_never(parent, filePath) == FALSE

\* isModified: the file exists in the parent commit.
isModifiedFile(parent, filePath) ==
  parent.exists /\ gitShow(parent.files, filePath).present

\* The loop of filesOverlapWithContent, from entry i on. The blob hashes of
\* two files are equal exactly when their contents are.
RECURSIVE overlapLoop(_, _, _, _, _)
overlapLoop(shadow, head, parent, filesTouched, i) ==
  IF i > Len(filesTouched)
    THEN FALSE
    ELSE LET filePath == filesTouched[i]
             headContent == gitShow(head, filePath)
             shadowContent == gitShow(shadow, filePath)
             continue == overlapLoop(shadow, head, parent, filesTouched, i + 1)
         IN IF ~headContent.present
              THEN IF parent.exists /\ gitShow(parent.files, filePath).present
                     THEN TRUE
                     ELSE continue
              ELSE IF isModifiedFile(parent, filePath) THEN TRUE
              ELSE IF ~shadowContent.present THEN continue
              ELSE IF headContent.content = shadowContent.content THEN TRUE
              ELSE IF /\ headContent.content # <<>>
                      /\ shadowContent.content # <<>>
                      /\ hasSignificantContentOverlap(headContent.content,
                                                      shadowContent.content)
                     THEN TRUE
                     ELSE continue

\* Mutant: only the first entry of filesTouched is looked at.
filesOverlapWithContent_firstOnly(shadow, head, parent, filesTouched) ==
  IF filesTouched = <<>>
    THEN FALSE
    ELSE overlapLoop(shadow, head, parent, <<filesTouched[1]>>, 1)

filesOverlapWithContent(shadow, head, parent, filesTouched) ==
  IF filesTouched = <<>> THEN FALSE ELSE overlapLoop(shadow, head, parent, filesTouched, 1)

TouchedLists == UNION {[1..n -> OFiles] : n \in 0..MaxTouched}

\* The variables the overlap checks do not touch.
overlapFrame == <<vars, attrVars, treeVars, storeVars, logVars, lifeVars,
                  normVars, maintVars>>

OverlapInit ==
  /\ MachineIdle
  /\ AttrReady /\ TreeReady /\ StoreReady /\ LogReady /\ LifeReady /\ NormReady /\ MaintReady
  /\ OverlapReady

\* A call hasSignificantContentOverlap(stagedContent, shadowContent).
SignificantOverlapCall ==
  /\ oOp = "ready"
  /\ \E staged, shadow \in LineLists :
       /\ oIn' = [kind |-> "lines", staged |-> staged, shadow |-> shadow]
       /\ oOut' = hasSignificantContentOverlap(joinLines(staged), joinLines(shadow))
  /\ oOp' = "lines"
  /\ UNCHANGED overlapFrame

\* A call filesOverlapWithContent(shadowBranchName, headCommitHash,
\* parentCommitHash, filesTouched).
FilesOverlapCall ==
  /\ oOp = "ready"
  /\ \E shadow, head \in CommitFiles, parent \in Parents, filesTouched \in TouchedLists :
       /\ oIn' = [kind |-> "files", shadow |-> shadow, head |-> head, parent |-> parent,
                  filesTouched |-> filesTouched]
       /\ oOut' = filesOverlapWithContent(shadow, head, parent, filesTouched)
  /\ oOp' = "files"
  /\ UNCHANGED overlapFrame

\* The caller takes the answer.
OverlapReturn ==
  /\ oOp \in {"lines", "files"}
  /\ oOp' = "ready"
  /\ oIn' = [kind |-> "none"]
  /\ oOut' = FALSE
  /\ UNCHANGED overlapFrame

OverlapNext == SignificantOverlapCall \/ FilesOverlapCall \/ OverlapReturn

SpecOverlap == OverlapInit /\ [][OverlapNext]_allVars

\* C21: filesOverlapWithContent returns true whenever some entry of
\* filesTouched exists both in the head commit and in its parent commit,
\* whatever the contents, the shadow branch and the other entries.
C21_ModifiedFileOverlaps ==
  oOp = "files" =>
    ((\E i \in 1..Len(oIn.filesTouched) :
        /\ oIn.head[oIn.filesTouched[i]].present
        /\ oIn.parent.exists
        /\ oIn.parent.files[oIn.filesTouched[i]].present)
       => oOut = TRUE)

\* The pre-existing file is the second entry, its content differs in head,
\* parent and shadow branch; the first entry is a new file the shadow branch
\* does not have.
C21_Witness ==
  /\ oOp = "files"
  /\ oIn.filesTouched = <<"g", "f">>
  /\ oIn.head["g"].present /\ ~oIn.parent.files["g"].present /\ ~oIn.shadow["g"].present
  /\ oIn.head["f"] = FileAt(joinLines(<<LineX, LineY>>))
  /\ oIn.parent.exists
  /\ oIn.parent.files["f"] = FileAt(joinLines(<<LineW, LineBrace>>))
  /\ oIn.shadow["f"] = FileAt(<<>>)
  /\ oOut = TRUE

\* The distinct trimmed lines of length >= 10 among `lines`.
Significant(lines) ==
  {lines[i].core : i \in {k \in 1..Len(lines) : Len(lines[k].core) >= 10}}

\* C22: hasSignificantContentOverlap is true iff the distinct trimmed lines
\* of length >= 10 common to both contents number at least 2, or at least 1
\* when either side has fewer than 2 such lines; it is false when either side
\* has none.
C22_SignificantOverlap ==
  oOp = "lines" =>
    LET staged == Significant(oIn.staged)
        shadow == Significant(oIn.shadow)
        common == Cardinality(staged \cap shadow)
    IN /\ oOut = (\/ common >= 2
                  \/ common >= 1 /\ (Cardinality(staged) < 2 \/ Cardinality(shadow) < 2))
       /\ (staged = {} \/ shadow = {} => oOut = FALSE)

\* Two small files that share a brace and nothing else.
C22_Witness ==
  /\ oOp = "lines"
  /\ oIn.staged = <<LineBrace, LineX>>
  /\ oIn.shadow = <<LineBrace, LineY>>
  /\ oOut = FALSE

\* The touched file is absent from head and present in the parent.
isDeletion(in, filePath) ==
  /\ ~in.head[filePath].present
  /\ in.parent.exists /\ in.parent.files[filePath].present

\* The touched file is in head and in the parent.
isPreExisting(in, filePath) ==
  /\ in.head[filePath].present
  /\ in.parent.exists /\ in.parent.files[filePath].present

\* The touched file is in head, not in the parent (or there is no parent),
\* and it is on the shadow branch with the same blob or with a significant
\* overlap of content.
newFileCounts(in, filePath) ==
  /\ in.head[filePath].present
  /\ ~(in.parent.exists /\ in.parent.files[filePath].present)
  /\ in.shadow[filePath].present
  /\ \/ in.head[filePath].content = in.shadow[filePath].content
     \/ hasSignificantContentOverlap(in.head[filePath].content,
                                     in.shadow[filePath].content)

touchedSet(filesTouched) == {filesTouched[i] : i \in 1..Len(filesTouched)}

\* C38: filesOverlapWithContent is false for an empty filesTouched; a touched
\* file deleted by the commit makes it true; when no touched file is
\* pre-existing it is true exactly when some touched file is deleted or is a
\* new file that is on the shadow branch with an equal blob or a significant
\* overlap; and every list of the same touched files gives the same result.
C38_NewFileRule ==
  oOp = "files" =>
    LET touched == touchedSet(oIn.filesTouched) IN
    /\ oIn.filesTouched = <<>> => oOut = FALSE
    /\ (\E f \in touched : isDeletion(oIn, f)) => oOut = TRUE
    /\ (\A f \in touched : ~isPreExisting(oIn, f))
         => oOut = (\E f \in touched : isDeletion(oIn, f) \/ newFileCounts(oIn, f))
    /\ \A other \in TouchedLists :
         touchedSet(other) = touched
           => filesOverlapWithContent(oIn.shadow, oIn.head, oIn.parent, other) = oOut

\* There is no parent; the first touched file is new and not on the shadow
\* branch, the second is new and on the shadow branch with other blanks and
\* one more line.
C38_Witness ==
  /\ oOp = "files"
  /\ oIn.filesTouched = <<"g", "f">>
  /\ ~oIn.parent.exists
  /\ oIn.head["g"].present /\ ~oIn.shadow["g"].present
  /\ oIn.head["f"] = FileAt(joinLines(<<LineX, LineY>>))
  /\ oIn.shadow["f"] = FileAt(joinLines(<<LineXIndented, LineY, LineBrace>>))
  /\ oOut = TRUE

\* A new file whose content on the shadow branch shares no significant line
\* with the commit does not count.
C38_NoOverlap ==
  /\ oOp = "files"
  /\ oIn.filesTouched = <<"f">>
  /\ oIn.parent.exists /\ ~oIn.parent.files["f"].present
  /\ oIn.head["f"] = FileAt(joinLines(<<LineX, LineY>>))
  /\ oIn.shadow["f"] = FileAt(joinLines(<<LineW, LineBrace>>))
  /\ oOut = FALSE

\* ======================================================= checkpoint event log

\* Calls of appendCheckpointEvent made.
MaxAppends == 4

\* Largest opts.maxEvents used.
MaxKeep == 2

\* checkpointID of the events appended.
EventIDs == {"1", "2", "3"}

\* opts.maxEvents: undefined, 0, or a positive number.
MaxEventsOptions == {NoMaxEvents} \cup {[defined |-> TRUE, n |-> n] : n \in 0..MaxKeep}

\* JSON.stringify(event): one line, without blanks or newlines around it.
stringifyEvent(id) == <<"{", id, "}">>

\* JSON.parse of a line: it throws on a malformed line.
parseThrows(line) == ~(Len(line) = 3 /\ line[1] = "{" /\ line[3] = "}" /\ line[2] \in EventIDs)
parseEvent(line) == line[2]

\* l.trim().length > 0
nonBlank(line) == Len(trim(line)) > 0

wellFormed(line) == nonBlank(line) /\ ~parseThrows(trim(line))

\* readCheckpointEvents: the events of the lines that are not blank and parse.
readCheckpointEvents(content) ==
  LET lines == SelectSeq(split(content), wellFormed)
  IN [i \in 1..Len(lines) |-> parseEvent(trim(lines[i]))]

\* kept.join('\n') + '\n'
RECURSIVE joinWithNewlines(_)
joinWithNewlines(lines) ==
  IF lines = <<>> THEN <<NL>>
  ELSE IF Len(lines) = 1 THEN lines[1] \o <<NL>>
  ELSE lines[1] \o <<NL>> \o joinWithNewlines(Tail(lines))

\* Mutant: the first maxEvents lines are kept.
pruneEventLog_oldest(content, maxEvents) ==
  LET lines == SelectSeq(split(content), nonBlank) IN
  IF Len(lines) <= maxEvents
    THEN content
    ELSE joinWithNewlines(SubSeq(lines, 1, maxEvents))

\* pruneEventLog: the content of the file afterwards.
pruneEventLog(content, maxEvents) ==
  LET lines == SelectSeq(split(content), nonBlank) IN
  IF Len(lines) <= maxEvents
    THEN content
    ELSE joinWithNewlines(SubSeq(lines, Len(lines) - maxEvents + 1, Len(lines)))

\* appendCheckpointEvent: the content of the file afterwards.
appendCheckpointEvent(content, id, opts) ==
  LET appended == content \o stringifyEvent(id) \o <<NL>> IN
  IF opts.defined /\ opts.n # 0 /\ opts.n > 0
    THEN pruneEventLog(appended, opts.n)
    ELSE appended

\* The variables the event log does not touch.
logFrame == <<vars, attrVars, treeVars, storeVars, overlapVars, lifeVars,
              normVars, maintVars>>

\* The log is used with one retention setting.
LogInit ==
  /\ MachineIdle
  /\ AttrReady /\ TreeReady /\ StoreReady /\ OverlapReady /\ LifeReady /\ NormReady /\ MaintReady
  /\ gFile = <<>>
  /\ gAppended = <<>>
  /\ gOpts \in MaxEventsOptions

\* A call appendCheckpointEvent(cwd, event, opts).
AppendEvent ==
  /\ Len(gAppended) < MaxAppends
  /\ \E id \in EventIDs :
       /\ gFile' = appendCheckpointEvent(gFile, id, gOpts)
       /\ gAppended' = Append(gAppended, id)
  /\ UNCHANGED gOpts
  /\ UNCHANGED logFrame

LogNext == AppendEvent

SpecLog == LogInit /\ [][LogNext]_allVars

\* The last n elements of a sequence.
LastOf(seq, n) == SubSeq(seq, Len(seq) - n + 1, Len(seq))

\* C27: after k appends with maxEvents = N > 0 the log holds the last
\* min(k, N) appended events in append order; with maxEvents 0 or undefined
\* it holds all of them.
C27_LogRetention ==
  readCheckpointEvents(gFile) =
    (IF gOpts.defined /\ gOpts.n > 0
       THEN LastOf(gAppended, Min(Len(gAppended), gOpts.n))
       ELSE gAppended)

\* Four events appended with maxEvents = 2: the last two are left.
C27_Witness ==
  /\ gOpts = [defined |-> TRUE, n |-> 2]
  /\ gAppended = <<"1", "2", "3", "1">>
  /\ readCheckpointEvents(gFile) = <<"3", "1">>
  /\ gFile = <<"{", "3", "}", NL, "{", "1", "}", NL>>

\* ====================================================== lifecycle dispatcher

\* Largest value of the clock.
MaxTime == 2

\* Largest stepCount followed.
MaxSteps == 2

\* Largest transcript position.
MaxPosition == 1

\* Largest token total followed.
MaxTokens == 1

\* getHead(): the commit HEAD is at.
HeadCommit == "c1"

\* Files an agent's transcript can report as modified.
LFiles == {"a.ts"}

\* crypto.randomUUID().slice(0, 8)
TurnIDs == {"u1"}

\* event.sessionRef and event.prompt: empty (falsy) or not.
SessionRefs == {"", "ref"}
Prompts == {"", "p"}

TaskIDs == {"t1", "t2"}
TaskStatuses == {"pending", "completed"}
TaskSubjects == {"s1"}
TaskDescriptions == {"d1"}

\* EventType, the types the dispatcher has a handler for.
SessionEvents ==
  {"SessionStart", "TurnStart", "TurnEnd", "SessionEnd", "Compaction",
   "SubagentStart", "SubagentEnd"}
TaskEvents == {"TaskCreate", "TaskUpdate", "PlanModeEnter", "PlanModeExit", "SkillUse"}
EventTypes == SessionEvents \cup TaskEvents

\* tokenUsage undefined.
NoUsage == [defined |-> FALSE, total |-> 0]

\* Record<string, TrackedTask> without entries; an undefined tasks field reads
\* the same way.
NoTasks == [t \in {} |-> 0]

\* The SessionState handleSessionStart creates. Optional fields that are
\* undefined hold the empty string, NoTime, 0, FALSE or no entries. Fields
\* that are written once here and never read or changed by the dispatcher
\* (sessionID, turnCheckpointIDs, untrackedFilesAtStart, agentType,
\* worktreePath) are left out.
NewSession(head, sessionRef, t) ==
  [exists |-> TRUE,
   baseCommit |-> head,
   attributionBaseCommit |-> head,
   startedAt |-> t,
   phase |-> "idle",
   stepCount |-> 0,
   checkpointTranscriptStart |-> 0,
   filesTouched |-> {},
   transcriptPath |-> sessionRef,
   transcriptIdentifierAtStart |-> "",
   turnID |-> "",
   firstPrompt |-> "",
   lastInteractionTime |-> NoTime,
   endedAt |-> NoTime,
   tokenUsage |-> NoUsage,
   tasks |-> NoTasks,
   inPlanMode |-> FALSE,
   planModeEntries |-> 0,
   planEntries |-> <<>>,
   skillsUsed |-> <<>>]

\* What a handler did with the store: the state it saved, if it saved.
Saved(st) == [saved |-> TRUE, state |-> st]
NotSaved(st) == [saved |-> FALSE, state |-> st]

\* Mutant: a SessionStart always creates the session anew.
handleSessionStart_reinit(existing, head, sessionRef, t) ==
  Saved(NewSession(head, sessionRef, t))

handleSessionStart(existing, head, sessionRef, t) ==
  IF existing.exists /\ existing.phase # "ended"
    THEN Saved([existing EXCEPT !.lastInteractionTime = t])
    ELSE Saved(NewSession(head, sessionRef, t))

\* handleTurnStart from "Generate a new turn ID" on. position is -1 when
\* getTranscriptPosition throws.
handleTurnStart(st, turnID, sessionRef, prompt, analyzer, position, t) ==
  LET s1 == [st EXCEPT !.turnID = turnID,
                       !.phase = "active",
                       !.lastInteractionTime = t,
                       !.transcriptPath = sessionRef]
      s2 == IF prompt # "" /\ s1.firstPrompt = ""
              THEN [s1 EXCEPT !.firstPrompt = prompt]
              ELSE s1
      s3 == IF analyzer /\ sessionRef # "" /\ position >= 0
              THEN [s2 EXCEPT !.checkpointTranscriptStart = position,
                              !.transcriptIdentifierAtStart = sessionRef]
              ELSE s2
  IN Saved(s3)

\* handleTurnEnd, lines 161-176: the files extracted from the transcript are
\* merged into filesTouched. files.throws: extractModifiedFilesFromOffset
\* threw.
mergeExtracted(st, analyzer, files) ==
  IF analyzer /\ st.transcriptPath # "" /\ ~files.throws
    THEN [st EXCEPT !.filesTouched = st.filesTouched \cup files.files]
    ELSE st

\* No call of writeTemporary.
NoCall == [made |-> FALSE, isFirstCheckpoint |-> FALSE]

\* handleTurnEnd, lines 178-197: the call of writeTemporary made for the
\* state after the merge, if one is made, and its isFirstCheckpoint option.
checkpointCall(st) ==
  IF st.filesTouched # {}
    THEN [made |-> TRUE, isFirstCheckpoint |-> st.stepCount = 0]
    ELSE NoCall

\* Mutant: a skipped checkpoint is counted as a step.
handleTurnEnd_countSkipped(st, analyzer, files, write, calculator, usage, t) ==
  IF ~st.exists THEN NotSaved(st) ELSE
  LET s2 == mergeExtracted([st EXCEPT !.lastInteractionTime = t], analyzer, files)
      s3 == IF checkpointCall(s2).made /\ write # "throws"
              THEN [s2 EXCEPT !.stepCount = s2.stepCount + 1]
              ELSE s2
  IN Saved([s3 EXCEPT !.phase = "idle"])

\* Mutant: an error of writeTemporary ends the handler before the save.
handleTurnEnd_rethrow(st, analyzer, files, write, calculator, usage, t) ==
  IF ~st.exists THEN NotSaved(st) ELSE
  LET s2 == mergeExtracted([st EXCEPT !.lastInteractionTime = t], analyzer, files)
      s3 == IF checkpointCall(s2).made /\ write = "written"
              THEN [s2 EXCEPT !.stepCount = s2.stepCount + 1]
              ELSE s2
  IN IF checkpointCall(s2).made /\ write = "throws"
       THEN NotSaved(st)
       ELSE Saved([s3 EXCEPT !.phase = "idle"])

\* handleTurnEnd. write is what writeTemporary did: "written", "skipped" or
\* "throws" (an error of getGitAuthor is caught in the same way); usage is -1
\* when the token calculation threw.
handleTurnEnd(st, analyzer, files, write, calculator, usage, t) ==
  IF ~st.exists THEN NotSaved(st) ELSE
  LET s1 == [st EXCEPT !.lastInteractionTime = t]
      s2 == mergeExtracted(s1, analyzer, files)
      s3 == IF checkpointCall(s2).made /\ write = "written"
              THEN [s2 EXCEPT !.stepCount = s2.stepCount + 1]
              ELSE s2
      s4 == IF calculator /\ s3.transcriptPath # "" /\ usage >= 0
              THEN [s3 EXCEPT !.tokenUsage =
                      [defined |-> TRUE, total |-> s3.tokenUsage.total + usage]]
              ELSE s3
  IN Saved([s4 EXCEPT !.phase = "idle"])

handleSessionEnd(st, t) ==
  IF ~st.exists THEN NotSaved(st) ELSE
  Saved([st EXCEPT !.phase = "ended", !.endedAt = t, !.lastInteractionTime = t])

handleCompaction(st, analyzer, position, t) ==
  IF ~st.exists THEN NotSaved(st) ELSE
  LET s1 == IF analyzer /\ st.transcriptPath # "" /\ position >= 0
              THEN [st EXCEPT !.checkpointTranscriptStart = position]
              ELSE st
  IN Saved([s1 EXCEPT !.lastInteractionTime = t])

\* handleSubagentStart and handleSubagentEnd.
handleSubagent(st, t) ==
  IF ~st.exists THEN NotSaved(st) ELSE Saved([st EXCEPT !.lastInteractionTime = t])

\* Largest number of plan entries and of skill uses followed.
MaxPlans == 2
MaxSkills == 1

TaskActiveForms == {"af"}
PlanFilePaths == {"", "plan.md"}
SkillNames == {"", "k"}

TrackedTask(id, subject, description, status, activeForm, t) ==
  [id |-> id, subject |-> subject, description |-> description, status |-> status,
   activeForm |-> activeForm, createdAt |-> t, updatedAt |-> t]

\* tasks with the entry of taskID set to task.
setTask(tasks, taskID, task) ==
  [id \in DOMAIN tasks \cup {taskID} |-> IF id = taskID THEN task ELSE tasks[id]]

\* Mutant: a TaskCreate for a session that is not stored creates the session.
handleTaskCreate_create(st, ev, t) ==
  IF ~st.exists THEN Saved(NewSession(HeadCommit, "", t)) ELSE
  IF ev.taskID = "" /\ ev.toolUseID = "" THEN NotSaved(st) ELSE Saved(st)

\* handleTaskCreate. An event field that is undefined holds "".
handleTaskCreate(st, ev, t) ==
  IF ~st.exists THEN NotSaved(st) ELSE
  LET taskID == IF ev.taskID # "" THEN ev.taskID ELSE ev.toolUseID
      s1 == IF taskID # ""
              THEN [st EXCEPT !.tasks =
                      setTask(st.tasks, taskID,
                              TrackedTask(taskID, ev.taskSubject, ev.taskDescription,
                                          "pending", ev.taskActiveForm, t))]
              ELSE st
  IN Saved([s1 EXCEPT !.lastInteractionTime = t])

\* Mutant: an update rewrites the whole task from the event.
updateTrackedTask_rewrite(task, ev, t) ==
  TrackedTask(task.id, ev.taskSubject, ev.taskDescription, ev.taskStatus, "", t)

\* The branch of handleTaskUpdate for a tracked task.
updateTrackedTask(task, ev, t) ==
  LET t1 == IF ev.taskStatus # "" THEN [task EXCEPT !.status = ev.taskStatus] ELSE task
      t2 == IF ev.taskSubject # "" THEN [t1 EXCEPT !.subject = ev.taskSubject] ELSE t1
      t3 == IF ev.taskDescription # ""
              THEN [t2 EXCEPT !.description = ev.taskDescription]
              ELSE t2
  IN [t3 EXCEPT !.updatedAt = t]

handleTaskUpdate(st, ev, t) ==
  IF ~st.exists THEN NotSaved(st) ELSE
  LET taskID == ev.taskID
      s1 == IF taskID = "" THEN st
            ELSE IF taskID \in DOMAIN st.tasks
              THEN [st EXCEPT !.tasks =
                      setTask(st.tasks, taskID, updateTrackedTask(st.tasks[taskID], ev, t))]
              ELSE [st EXCEPT !.tasks =
                      setTask(st.tasks, taskID,
                              TrackedTask(taskID, ev.taskSubject, ev.taskDescription,
                                          IF ev.taskStatus # "" THEN ev.taskStatus
                                                                ELSE "pending",
                                          "", t))]
  IN Saved([s1 EXCEPT !.lastInteractionTime = t])

PlanEntry(t) ==
  [enteredAt |-> t, exitedAt |-> NoTime, filePath |-> "", content |-> "",
   allowedPrompts |-> FALSE]

handlePlanModeEnter(st, t) ==
  IF ~st.exists THEN NotSaved(st) ELSE
  Saved([st EXCEPT !.inPlanMode = TRUE,
                   !.planModeEntries = st.planModeEntries + 1,
                   !.planEntries = Append(st.planEntries, PlanEntry(t)),
                   !.lastInteractionTime = t])

\* Mutant: an exit closes an entry of its own.
handlePlanModeExit_push(st, ev, t) ==
  IF ~st.exists THEN NotSaved(st) ELSE
  Saved([st EXCEPT !.inPlanMode = FALSE,
                   !.planModeEntries = st.planModeEntries + 1,
                   !.planEntries = Append(st.planEntries, [PlanEntry(t) EXCEPT !.exitedAt = t]),
                   !.lastInteractionTime = t])

\* handlePlanModeExit, for a dispatcher configured without cwd (the path is
\* stored as given). ev.readable: readFile of the plan file succeeds.
handlePlanModeExit(st, ev, t) ==
  IF ~st.exists THEN NotSaved(st) ELSE
  LET n == Len(st.planEntries)
      lastEntry == st.planEntries[n]
      e1 == [lastEntry EXCEPT !.exitedAt = t]
      e2 == IF ev.planFilePath # ""
              THEN [e1 EXCEPT !.filePath = ev.planFilePath,
                              !.content = IF ev.readable THEN "plan" ELSE e1.content]
              ELSE e1
      e3 == IF ev.planAllowedPrompts THEN [e2 EXCEPT !.allowedPrompts = TRUE] ELSE e2
      s1 == [st EXCEPT !.inPlanMode = FALSE]
      s2 == IF n > 0 /\ lastEntry.exitedAt = NoTime
              THEN [s1 EXCEPT !.planEntries[n] = e3]
              ELSE s1
  IN Saved([s2 EXCEPT !.lastInteractionTime = t])

handleSkillUse(st, ev, t) ==
  IF ~st.exists THEN NotSaved(st) ELSE
  LET s1 == IF ev.skillName # ""
              THEN [st EXCEPT !.skillsUsed =
                      Append(st.skillsUsed, [name |-> ev.skillName, usedAt |-> t])]
              ELSE st
  IN Saved([s1 EXCEPT !.lastInteractionTime = t])

\* The variables the dispatcher does not touch.
lifeFrame == <<vars, attrVars, treeVars, storeVars, overlapVars, logVars,
              normVars, maintVars>>

LifeInit ==
  /\ MachineIdle
  /\ AttrReady /\ TreeReady /\ StoreReady /\ OverlapReady /\ LogReady
  /\ LifeReady /\ NormReady /\ MaintReady

\* dispatch(agent, event) up to the handler's sessionStore.load. `types` are
\* the event types the agent hooks send for a session in this state; with
\* `concurrent` false a hook process starts when no other is running.
Dispatch(h, types, concurrent) ==
  /\ lPc[h] = "idle"
  /\ concurrent \/ \A g \in Hooks : lPc[g] = "idle"
  /\ \E type \in types :
       /\ type = "PlanModeEnter" /\ lStore.exists => lStore.planModeEntries < MaxPlans
       /\ type = "SkillUse" /\ lStore.exists => Len(lStore.skillsUsed) < MaxSkills
       /\ lLocal' = [lLocal EXCEPT ![h] =
                       [event |-> [type |-> type, created |-> FALSE],
                        loaded |-> lStore, saved |-> FALSE]]
  /\ lPc' = [lPc EXCEPT ![h] = "loaded"]
  /\ UNCHANGED <<lStore, lNow, lEnters, lWrites>>
  /\ UNCHANGED lifeFrame

\* The handler of hook process h has loaded and handles an event of this type.
Handling(h, type) == lPc[h] = "loaded" /\ lLocal[h].event.type = type

\* The handler ends: it has saved out.state, or nothing.
Finish(h, out, ev) ==
  /\ lStore' = IF out.saved THEN out.state ELSE lStore
  /\ lLocal' = [lLocal EXCEPT ![h].event = ev, ![h].saved = out.saved]
  /\ lPc' = [lPc EXCEPT ![h] = "done"]
  /\ UNCHANGED lNow
  /\ UNCHANGED lifeFrame

\* handleSessionStart, for an event whose sessionRef is one of refs.
SessionStartWith(h, refs) ==
  /\ Handling(h, "SessionStart")
  /\ \E sessionRef \in refs :
       Finish(h, handleSessionStart(lLocal[h].loaded, HeadCommit, sessionRef, lNow),
              [type |-> "SessionStart", created |-> FALSE, sessionRef |-> sessionRef])
  /\ UNCHANGED <<lEnters, lWrites>>

SessionStartDone(h) == SessionStartWith(h, SessionRefs)

\* handleTurnStart found no state: it runs handleSessionStart, which loads and
\* saves, and loads again.
TurnStartCreate(h) ==
  /\ Handling(h, "TurnStart")
  /\ ~lLocal[h].loaded.exists
  /\ \E sessionRef \in SessionRefs :
       LET out == handleSessionStart(lStore, HeadCommit, sessionRef, lNow) IN
       /\ lStore' = out.state
       /\ lLocal' = [lLocal EXCEPT ![h].loaded = out.state,
                                   ![h].event = [type |-> "TurnStart", created |-> TRUE,
                                                 sessionRef |-> sessionRef]]
  /\ UNCHANGED <<lPc, lNow, lEnters, lWrites>>
  /\ UNCHANGED lifeFrame

TurnStartDone(h) ==
  /\ Handling(h, "TurnStart")
  /\ lLocal[h].loaded.exists
  /\ \E turnID \in TurnIDs, prompt \in Prompts, analyzer \in BOOLEAN,
        position \in -1..MaxPosition, sessionRef \in SessionRefs :
       /\ lLocal[h].event.created => sessionRef = lLocal[h].event.sessionRef
       /\ Finish(h, handleTurnStart(lLocal[h].loaded, turnID, sessionRef,
                                    prompt, analyzer, position, lNow),
                 [type |-> "TurnStart", created |-> lLocal[h].event.created,
                  sessionRef |-> sessionRef])
  /\ UNCHANGED <<lEnters, lWrites>>

\* What extractModifiedFilesFromOffset does: it throws, or returns files.
Extractions ==
  {[throws |-> TRUE, files |-> {}]} \cup {[throws |-> FALSE, files |-> fs] : fs \in SUBSET LFiles}

\* What writeTemporary does.
Writes == {"written", "skipped", "throws"}

\* handleTurnEnd, for an agent with these capabilities and a checkpoint
\* store whose writeTemporary does one of writes. With `counted`, the calls
\* of writeTemporary that return skipped = false are counted in lWrites.
TurnEndWith(h, analyzers, calculators, writes, counted) ==
  /\ Handling(h, "TurnEnd")
  /\ \E analyzer \in analyzers, calculator \in calculators, files \in Extractions,
        write \in writes, usage \in -1..MaxTokens :
       LET st == lLocal[h].loaded
           call == IF st.exists
                     THEN checkpointCall(mergeExtracted(st, analyzer, files))
                     ELSE NoCall
       IN
       /\ st.exists /\ write = "written" => st.stepCount < MaxSteps
       /\ st.exists /\ usage >= 0 => st.tokenUsage.total + usage <= MaxTokens
       /\ Finish(h, handleTurnEnd(st, analyzer, files, write, calculator, usage, lNow),
                 [type |-> "TurnEnd", created |-> FALSE, analyzer |-> analyzer,
                  files |-> files, write |-> write, call |-> call])
       /\ lWrites' = IF counted /\ call.made /\ write = "written"
                       THEN lWrites + 1
                       ELSE lWrites
  /\ UNCHANGED lEnters

TurnEndDone(h) == TurnEndWith(h, BOOLEAN, BOOLEAN, Writes, FALSE)

SessionEndDone(h) ==
  /\ Handling(h, "SessionEnd")
  /\ Finish(h, handleSessionEnd(lLocal[h].loaded, lNow), lLocal[h].event)
  /\ UNCHANGED <<lEnters, lWrites>>

CompactionDone(h) ==
  /\ Handling(h, "Compaction")
  /\ \E analyzer \in BOOLEAN, position \in -1..MaxPosition :
       Finish(h, handleCompaction(lLocal[h].loaded, analyzer, position, lNow),
              lLocal[h].event)
  /\ UNCHANGED <<lEnters, lWrites>>

SubagentDone(h) ==
  /\ Handling(h, "SubagentStart") \/ Handling(h, "SubagentEnd")
  /\ Finish(h, handleSubagent(lLocal[h].loaded, lNow), lLocal[h].event)
  /\ UNCHANGED <<lEnters, lWrites>>

\* The task fields of an event; "" for an undefined field.
TaskFields ==
  [taskID : {""} \cup TaskIDs, toolUseID : {"", "t2"},
   taskSubject : {""} \cup TaskSubjects, taskDescription : {""} \cup TaskDescriptions,
   taskStatus : {""} \cup TaskStatuses, taskActiveForm : TaskActiveForms]

\* The event with these task fields.
TaskEvent(ev, f) ==
  [type |-> ev.type, created |-> FALSE,
   taskID |-> f.taskID, toolUseID |-> f.toolUseID, taskSubject |-> f.taskSubject,
   taskDescription |-> f.taskDescription, taskStatus |-> f.taskStatus,
   taskActiveForm |-> f.taskActiveForm]

\* handleTaskCreate, for an event whose task fields are among fields.
TaskCreateWith(h, fields) ==
  /\ Handling(h, "TaskCreate")
  /\ \E f \in fields :
       /\ f.taskStatus = ""
       /\ Finish(h, handleTaskCreate(lLocal[h].loaded, TaskEvent(lLocal[h].event, f), lNow),
                 TaskEvent(lLocal[h].event, f))
  /\ UNCHANGED <<lEnters, lWrites>>

TaskCreateDone(h) == TaskCreateWith(h, TaskFields)

TaskUpdateDone(h) ==
  /\ Handling(h, "TaskUpdate")
  /\ \E f \in TaskFields :
       /\ f.toolUseID = ""
       /\ Finish(h, handleTaskUpdate(lLocal[h].loaded, TaskEvent(lLocal[h].event, f), lNow),
                 TaskEvent(lLocal[h].event, f))
  /\ UNCHANGED <<lEnters, lWrites>>

PlanModeEnterDone(h) ==
  /\ Handling(h, "PlanModeEnter")
  /\ Finish(h, handlePlanModeEnter(lLocal[h].loaded, lNow), lLocal[h].event)
  /\ lEnters' = IF lLocal[h].loaded.exists THEN lEnters + 1 ELSE lEnters
  /\ UNCHANGED lWrites

PlanModeExitDone(h) ==
  /\ Handling(h, "PlanModeExit")
  /\ \E planFilePath \in PlanFilePaths, readable, planAllowedPrompts \in BOOLEAN :
       LET ev == [type |-> "PlanModeExit",
                  created |-> FALSE, planFilePath |-> planFilePath, readable |-> readable,
                  planAllowedPrompts |-> planAllowedPrompts]
       IN Finish(h, handlePlanModeExit(lLocal[h].loaded, ev, lNow), ev)
  /\ UNCHANGED <<lEnters, lWrites>>

SkillUseDone(h) ==
  /\ Handling(h, "SkillUse")
  /\ \E skillName \in SkillNames :
       LET ev == [type |-> "SkillUse",
                  created |-> FALSE, skillName |-> skillName]
       IN Finish(h, handleSkillUse(lLocal[h].loaded, ev, lNow), ev)
  /\ UNCHANGED <<lEnters, lWrites>>

\* dispatch returns and the hook process exits.
DispatchReturn(h) ==
  /\ lPc[h] = "done"
  /\ lPc' = [lPc EXCEPT ![h] = "idle"]
  /\ lLocal' = [lLocal EXCEPT ![h] = NoDispatch]
  /\ UNCHANGED <<lStore, lNow, lEnters, lWrites>>
  /\ UNCHANGED lifeFrame

\* Time passes.
Tick ==
  /\ lNow < MaxTime
  /\ lNow' = lNow + 1
  /\ UNCHANGED <<lStore, lPc, lLocal, lEnters, lWrites>>
  /\ UNCHANGED lifeFrame

\* The handlers, for hook process h.
Handle(h) ==
  \/ SessionStartDone(h)
  \/ TurnStartCreate(h)
  \/ TurnStartDone(h)
  \/ TurnEndDone(h)
  \/ SessionEndDone(h)
  \/ CompactionDone(h)
  \/ SubagentDone(h)
  \/ TaskCreateDone(h)
  \/ TaskUpdateDone(h)
  \/ PlanModeEnterDone(h)
  \/ PlanModeExitDone(h)
  \/ SkillUseDone(h)
  \/ DispatchReturn(h)

\* The session's turns: the hook processes run one after another, so one
\* process stands for them all; the task and plan events reach the
\* dispatcher only while no session is stored.
LifeTypes == IF lStore.exists THEN SessionEvents ELSE EventTypes

LifeNext ==
  \/ Dispatch("h1", LifeTypes, FALSE)
  \/ Handle("h1")
  \/ Tick

SpecLife == LifeInit /\ [][LifeNext]_allVars

\* The dispatch of hook process h has returned from its handler.
Handled(h, type) == lPc[h] = "done" /\ lLocal[h].event.type = type

\* The fields of a session other than lastInteractionTime.
exceptLastInteraction(st) == [st EXCEPT !.lastInteractionTime = NoTime]

\* C23: a SessionStart dispatched for a stored session in phase idle or active
\* changes lastInteractionTime and nothing else: baseCommit,
\* attributionBaseCommit, startedAt, phase, stepCount, filesTouched and
\* checkpointTranscriptStart are as they were loaded.
C23_LiveSessionNotReinitialised ==
  LET d == lLocal["h1"] IN
  Handled("h1", "SessionStart") /\ d.loaded.exists /\ d.loaded.phase \in {"idle", "active"}
    => /\ d.saved
       /\ exceptLastInteraction(lStore) = exceptLastInteraction(d.loaded)
       /\ lStore.baseCommit = d.loaded.baseCommit
       /\ lStore.attributionBaseCommit = d.loaded.attributionBaseCommit
       /\ lStore.startedAt = d.loaded.startedAt
       /\ lStore.phase = d.loaded.phase
       /\ lStore.stepCount = d.loaded.stepCount
       /\ lStore.filesTouched = d.loaded.filesTouched
       /\ lStore.checkpointTranscriptStart = d.loaded.checkpointTranscriptStart

\* A SessionStart was handled for an active session with a checkpoint, touched
\* files and a transcript position, and moved its lastInteractionTime.
C23_Witness ==
  LET d == lLocal["h1"] IN
  /\ Handled("h1", "SessionStart")
  /\ d.loaded.exists /\ d.loaded.phase = "active"
  /\ d.loaded.stepCount > 0 /\ d.loaded.filesTouched # {}
  /\ d.loaded.checkpointTranscriptStart > 0
  /\ lStore.lastInteractionTime # d.loaded.lastInteractionTime

\* The event types whose handlers do nothing for a session that is not stored.
NonCreatingEvents ==
  {"TurnEnd", "SessionEnd", "Compaction", "SubagentStart", "SubagentEnd",
   "TaskCreate", "TaskUpdate", "PlanModeEnter", "PlanModeExit"}

\* C24: a TurnEnd, SessionEnd, Compaction, SubagentStart, SubagentEnd,
\* TaskCreate, TaskUpdate, PlanModeEnter or PlanModeExit dispatched while no
\* session is stored saves nothing and the store still holds no session; a
\* TurnStart dispatched while no session is stored creates it, in phase
\* active.
C24_OnlyStartsCreate ==
  LET d == lLocal["h1"] IN
  /\ lPc["h1"] = "done" /\ d.event.type \in NonCreatingEvents /\ ~d.loaded.exists
       => ~d.saved /\ lStore = NoSession
  /\ Handled("h1", "TurnStart") /\ d.event.created
       => d.saved /\ lStore.exists /\ lStore.phase = "active"

\* A TaskCreate naming a task was handled while no session was stored.
C24_Witness ==
  LET d == lLocal["h1"] IN
  /\ Handled("h1", "TaskCreate")
  /\ d.event.taskID # ""
  /\ ~d.loaded.exists

\* A TurnStart was handled while no session was stored.
C24_CreatedByTurnStart ==
  Handled("h1", "TurnStart") /\ lLocal["h1"].event.created

\* The state machine's event for a lifecycle event type.
machineEvent(type) == IF type = "SessionEnd" THEN "SessionStop" ELSE type

\* C28: for a stored session in phase p and an event e among SessionStart,
\* TurnStart, TurnEnd, SessionEnd and Compaction, the phase dispatch saves is
\* transition(p, e, ctx).newPhase.
C28_DispatchRefinesTransition ==
  LET d == lLocal["h1"] IN
  (/\ lPc["h1"] = "done"
   /\ d.event.type \in {"SessionStart", "TurnStart", "TurnEnd", "SessionEnd", "Compaction"}
   /\ d.loaded.exists)
    => /\ d.saved
       /\ \A ctx \in Contexts :
            ctx.hasFilesTouched = (d.loaded.filesTouched # {})
              => lStore.phase = transition(d.loaded.phase, machineEvent(d.event.type), ctx).newPhase

\* C29: a stored session has endedAt set only while its phase is ended.
C29_EndedAtOnlyWhileEnded ==
  lStore.exists /\ lStore.endedAt # NoTime => lStore.phase = "ended"

\* ------------------------------------------------- tasks, plans and skills

\* The task events of a session: a SessionStart stores the session, and from
\* then on the hooks send TaskCreate and TaskUpdate events, one process at a
\* time.
TaskTypes ==
  IF lStore.exists THEN {"TaskCreate", "TaskUpdate"}
                   ELSE {"SessionStart", "TaskCreate", "TaskUpdate"}

TasksNext ==
  \/ Dispatch("h1", TaskTypes, FALSE)
  \/ SessionStartDone("h1")
  \/ TaskCreateDone("h1")
  \/ TaskUpdateDone("h1")
  \/ DispatchReturn("h1")
  \/ Tick

SpecTasks == LifeInit /\ [][TasksNext]_allVars

\* The plan-mode and skill events of a session, in the same way.
PlanTypes ==
  IF lStore.exists THEN {"PlanModeEnter", "PlanModeExit", "SkillUse"}
                   ELSE {"SessionStart", "PlanModeEnter", "PlanModeExit", "SkillUse"}

PlansNext ==
  \/ Dispatch("h1", PlanTypes, FALSE)
  \/ SessionStartDone("h1")
  \/ PlanModeEnterDone("h1")
  \/ PlanModeExitDone("h1")
  \/ SkillUseDone("h1")
  \/ DispatchReturn("h1")
  \/ Tick

SpecPlans == LifeInit /\ [][PlansNext]_allVars

\* The last element of a non-empty sequence.
lastOf(seq) == seq[Len(seq)]

\* C25: with only plan-mode and skill events after the session's creation,
\* planModeEntries is the length of planEntries and the number of
\* PlanModeEnter events handled; a PlanModeExit leaves both counts and every
\* entry but the last as they were, sets inPlanMode to false, and sets
\* exitedAt of the last entry exactly when it was not set.
C25_PlanBookkeeping ==
  LET d == lLocal["h1"] IN
  /\ lStore.exists
       => /\ lStore.planModeEntries = Len(lStore.planEntries)
          /\ lStore.planModeEntries = lEnters
  /\ Handled("h1", "PlanModeExit") /\ d.loaded.exists
       => LET old == d.loaded.planEntries
              new == lStore.planEntries
          IN /\ lStore.planModeEntries = d.loaded.planModeEntries
             /\ Len(new) = Len(old)
             /\ ~lStore.inPlanMode
             /\ \A i \in 1..Len(old) - 1 : new[i] = old[i]
             /\ Len(old) > 0 =>
                  IF lastOf(old).exitedAt # NoTime
                    THEN lastOf(new) = lastOf(old)
                    ELSE /\ lastOf(new).exitedAt # NoTime
                         /\ lastOf(new).enteredAt = lastOf(old).enteredAt

\* A PlanModeExit was handled for a session with two plan entries, the first
\* one exited and the second one open, and closed the second.
C25_Witness ==
  LET d == lLocal["h1"] IN
  /\ Handled("h1", "PlanModeExit")
  /\ d.loaded.exists
  /\ Len(d.loaded.planEntries) = 2
  /\ d.loaded.planEntries[1].exitedAt # NoTime
  /\ d.loaded.planEntries[2].exitedAt = NoTime
  /\ lStore.planEntries[2].exitedAt # NoTime
  /\ lEnters = 2

\* The fields of a tracked task that a TaskUpdate event can supply, with the
\* event field supplying each.
SuppliedBy ==
  [status |-> "taskStatus", subject |-> "taskSubject", description |-> "taskDescription"]

\* C26: a TaskUpdate for a tracked task changes only status, subject and
\* description, each only if the event supplies it and then to the supplied
\* value, and updatedAt; id, createdAt, activeForm and every other task are
\* unchanged. A TaskUpdate for an untracked task ID creates the task, with the
\* supplied status, or 'pending' when none is supplied.
C26_TaskUpdateFrame ==
  LET d == lLocal["h1"]
      id == d.event.taskID
  IN Handled("h1", "TaskUpdate") /\ d.loaded.exists /\ id # ""
       => /\ d.saved
          /\ id \in DOMAIN lStore.tasks
          /\ \A other \in DOMAIN d.loaded.tasks \ {id} :
               other \in DOMAIN lStore.tasks /\ lStore.tasks[other] = d.loaded.tasks[other]
          /\ DOMAIN lStore.tasks = DOMAIN d.loaded.tasks \cup {id}
          /\ IF id \in DOMAIN d.loaded.tasks
               THEN LET old == d.loaded.tasks[id]
                        new == lStore.tasks[id]
                    IN /\ new.id = old.id
                       /\ new.createdAt = old.createdAt
                       /\ new.activeForm = old.activeForm
                       /\ \A f \in DOMAIN SuppliedBy :
                            new[f] = IF d.event[SuppliedBy[f]] # ""
                                       THEN d.event[SuppliedBy[f]]
                                       ELSE old[f]
               ELSE /\ lStore.tasks[id].id = id
                    /\ lStore.tasks[id].status =
                         IF d.event.taskStatus # "" THEN d.event.taskStatus ELSE "pending"

\* A TaskUpdate supplying only a status was handled for a tracked task with a
\* subject, while another task was tracked, at a later time than the task's
\* creation.
C26_Witness ==
  LET d == lLocal["h1"]
      id == d.event.taskID
  IN /\ Handled("h1", "TaskUpdate")
     /\ d.loaded.exists
     /\ id \in DOMAIN d.loaded.tasks
     /\ DOMAIN d.loaded.tasks = TaskIDs
     /\ d.loaded.tasks[id].subject # ""
     /\ d.loaded.tasks[id].status = "pending"
     /\ d.event.taskStatus = "completed"
     /\ d.event.taskSubject = ""
     /\ lStore.tasks[id].updatedAt # d.loaded.tasks[id].createdAt

\* A TaskUpdate was handled for a task ID that was not tracked.
C26_Untracked ==
  LET d == lLocal["h1"] IN
  /\ Handled("h1", "TaskUpdate")
  /\ d.loaded.exists
  /\ d.event.taskID # ""
  /\ d.event.taskID \notin DOMAIN d.loaded.tasks
  /\ d.event.taskStatus = ""

\* ------------------------------------------------ concurrent hook processes

\* The TaskCreate events of the racing hooks: a task ID and a subject.
RaceTaskFields ==
  {f \in TaskFields : /\ f.taskID # "" /\ f.toolUseID = "" /\ f.taskSubject # ""
                      /\ f.taskDescription = ""}

\* Hook processes of one session running concurrently, within one instant of
\* the clock: a SessionStart with a transcript stores the session; then turns
\* end while tasks are created. The agent analyses transcripts and does not
\* count tokens; every checkpoint is skipped as unchanged.
RaceTypes == IF lStore.exists THEN {"TurnEnd", "TaskCreate"} ELSE {"SessionStart"}

RaceNext ==
  \E h \in Hooks :
    \/ Dispatch(h, RaceTypes, TRUE)
    \/ SessionStartWith(h, {"ref"})
    \/ TurnEndWith(h, {TRUE}, {FALSE}, {"skipped"}, FALSE)
    \/ TaskCreateWith(h, RaceTaskFields)
    \/ DispatchReturn(h)

SpecRace == LifeInit /\ [][RaceNext]_allVars

\* const taskID = event.taskID || event.toolUseID || ''
taskIDOf(ev) == IF ev.taskID # "" THEN ev.taskID ELSE ev.toolUseID

\* The files a handled TurnEnd merged into filesTouched.
mergedFiles(d) ==
  IF d.event.analyzer /\ d.loaded.transcriptPath # "" /\ ~d.event.files.throws
    THEN d.event.files.files
    ELSE {}

\* C30: when the dispatches of two hook processes for a stored session have
\* both been handled, one of them a TaskCreate naming a task, the stored
\* state holds that task; if the other is a TaskCreate too its task is held
\* as well, and if it is a TurnEnd the stored phase is idle and the stored
\* filesTouched holds the files the TurnEnd merged.
C30_NoLostUpdate ==
  \A g, h \in Hooks :
    LET c == lLocal[g]
        d == lLocal[h]
    IN (/\ g # h
        /\ Handled(g, "TaskCreate") /\ c.loaded.exists /\ taskIDOf(c.event) # ""
        /\ lPc[h] = "done" /\ d.loaded.exists
        /\ d.event.type \in {"TaskCreate", "TurnEnd"})
         => /\ taskIDOf(c.event) \in DOMAIN lStore.tasks
            /\ d.event.type = "TurnEnd"
                 => lStore.phase = "idle" /\ mergedFiles(d) \subseteq lStore.filesTouched

\* ------------------------------------------------------ turns and checkpoints

\* The turns of a session: a SessionStart stores the session, and from then
\* on turns start and end, one hook process at a time; the calls of
\* writeTemporary that return skipped = false are counted.
TurnTypes == IF lStore.exists THEN {"TurnStart", "TurnEnd"} ELSE {"SessionStart"}

TurnEndCounted(h) == TurnEndWith(h, BOOLEAN, {FALSE}, Writes, TRUE)

TurnsNext ==
  \/ Dispatch("h1", TurnTypes, FALSE)
  \/ SessionStartDone("h1")
  \/ TurnStartDone("h1")
  \/ TurnEndCounted("h1")
  \/ DispatchReturn("h1")
  \/ Tick

SpecTurns == LifeInit /\ [][TurnsNext]_allVars

\* C31: over the turns of a session stepCount is the number of writeTemporary
\* calls that returned skipped = false; a TurnEnd whose filesTouched, after
\* the merge of the extracted files, is empty makes no call, and a call is
\* made with isFirstCheckpoint true exactly when stepCount is 0.
C31_StepCountCountsCheckpoints ==
  LET d == lLocal["h1"] IN
  /\ lStore.exists => lStore.stepCount = lWrites
  /\ Handled("h1", "TurnEnd") /\ d.loaded.exists
       => /\ d.loaded.filesTouched \cup mergedFiles(d) = {} => ~d.event.call.made
          /\ d.event.call.made
               => (d.event.call.isFirstCheckpoint <=> d.loaded.stepCount = 0)

\* A TurnEnd made the second counted checkpoint of a session: writeTemporary
\* was called with isFirstCheckpoint false and returned skipped = false.
C31_Witness ==
  LET d == lLocal["h1"] IN
  /\ Handled("h1", "TurnEnd")
  /\ d.loaded.exists
  /\ d.event.call.made /\ ~d.event.call.isFirstCheckpoint
  /\ d.event.write = "written"
  /\ lWrites = 2

\* A TurnEnd found no touched file and extracted none.
C31_NoCall ==
  LET d == lLocal["h1"] IN
  /\ Handled("h1", "TurnEnd")
  /\ d.loaded.exists
  /\ d.event.analyzer /\ d.loaded.transcriptPath # "" /\ ~d.event.files.throws
  /\ lStore.filesTouched = {}

\* C32: when writeTemporary throws during a TurnEnd, the handler still saves:
\* stepCount is as it was loaded, filesTouched is the loaded list with the
\* extracted files merged in, and the phase is idle.
C32_CheckpointFailureIsSwallowed ==
  LET d == lLocal["h1"] IN
  (/\ Handled("h1", "TurnEnd")
   /\ d.loaded.exists
   /\ d.event.call.made
   /\ d.event.write = "throws")
    => /\ d.saved
       /\ lStore.stepCount = d.loaded.stepCount
       /\ lStore.filesTouched = d.loaded.filesTouched \cup mergedFiles(d)
       /\ lStore.phase = "idle"

\* writeTemporary threw in the TurnEnd of an active session that had taken a
\* checkpoint, after a file was extracted from the transcript.
C32_Witness ==
  LET d == lLocal["h1"] IN
  /\ Handled("h1", "TurnEnd")
  /\ d.loaded.exists /\ d.loaded.phase = "active" /\ d.loaded.stepCount > 0
  /\ d.event.call.made
  /\ d.event.write = "throws"
  /\ mergedFiles(d) # {}

\* C33: no lifecycle event dispatched for a stored session removes a path
\* from filesTouched or lowers stepCount.
C33_FilesTouchedOnlyGrows ==
  LET d == lLocal["h1"] IN
  lPc["h1"] = "done" /\ d.loaded.exists /\ ~d.event.created
    => /\ lStore.exists
       /\ d.loaded.filesTouched \subseteq lStore.filesTouched
       /\ lStore.stepCount >= d.loaded.stepCount

\* ------------------------------------------- the shape of transition results

\* The loop of applyTransition over the actions from the i-th on; rejects[k]
\* says whether the handler of the k-th action rejects when awaited.
RECURSIVE applyLoop(_, _, _, _, _)
applyLoop(acc, actions, i, rejects, t) ==
  IF i > Len(actions)
    THEN acc
    ELSE applyLoop(applyAction(acc, actions[i], i, rejects[i], t), actions, i + 1, rejects, t)

\* C34: the action list transition returns holds at most one handler-backed
\* action, which is then its first element, and UpdateLastInteraction, when
\* present, is its last element; applyTransition given the result invokes
\* every handler-backed action of the list, whatever the handlers do.
C34_OneHandlerFirst ==
  op = "transition" =>
    LET n == Len(result.actions) IN
    /\ Cardinality(HandlerIdx) <= 1
    /\ HandlerIdx \subseteq {1}
    /\ \A i \in 1..n : result.actions[i] = "UpdateLastInteraction" => i = n
    /\ \A rejects \in [1..n -> BOOLEAN] :
         LET out == applyLoop(Acc([state EXCEPT !.phase = result.newPhase], NoError, <<>>),
                              result.actions, 1, rejects, now)
         IN /\ Len(out.calls) <= 1
            /\ {out.calls[k].index : k \in 1..Len(out.calls)} = HandlerIdx

\* transition returned a handler-backed action followed by
\* UpdateLastInteraction.
C34_Witness ==
  /\ op = "transition"
  /\ Len(result.actions) = 2
  /\ result.actions[1] \in HandlerActions
  /\ result.actions[2] = "UpdateLastInteraction"

\* C35: the result of transition does not depend on ctx.isRebaseInProgress
\* unless the event is GitCommit, and does not depend on ctx.hasFilesTouched
\* unless the phase is ended, the event GitCommit and no rebase is in
\* progress.
C35_ContextDependence ==
  op = "transition" =>
    \A ctx \in Contexts :
      \/ inEvent = "GitCommit" /\ ctx.isRebaseInProgress # inCtx.isRebaseInProgress
      \/ /\ inEvent = "GitCommit"
         /\ phaseFromString(inPhase) = "ended"
         /\ ~inCtx.isRebaseInProgress
      \/ transition(inPhase, inEvent, ctx) = result

\* transition was called for a commit on an ended session outside a rebase,
\* where the other value of hasFilesTouched gives another result.
C35_Witness ==
  /\ op = "transition"
  /\ inEvent = "GitCommit"
  /\ inPhase = "ended"
  /\ ~inCtx.isRebaseInProgress
  /\ transition(inPhase, inEvent, [inCtx EXCEPT !.hasFilesTouched = ~@]) # result

\* transition was called for a commit on an active session during a rebase,
\* where the result outside a rebase is another.
C35_RebaseMatters ==
  /\ op = "transition"
  /\ inEvent = "GitCommit"
  /\ inPhase = "active"
  /\ transition(inPhase, inEvent, [inCtx EXCEPT !.isRebaseInProgress = ~@]) # result

\* --------------------------------------------------------- normalizeAfterLoad

\* Largest line count a transcript field holds, and the number of calls of
\* normalizeAfterLoad followed on one state object.
MaxLineCount == 2
MaxNormalize == 2

\* The values of an optional numeric field of a state file.
OptionalCounts == {Undefined} \cup {Num(n) : n \in -1..MaxLineCount}

\* The values of an optional commit field: undefined, empty or a hash.
OptionalCommits == {"undefined", "", "c1", "c2"}

\* The state objects normalizeAfterLoad is given.
LoadedStates ==
  [phase : RawPhases,
   checkpointTranscriptStart : OptionalCounts,
   condensedTranscriptLines : OptionalCounts,
   transcriptLinesAtStart : OptionalCounts,
   attributionBaseCommit : OptionalCommits,
   baseCommit : OptionalCommits]

\* JavaScript truthiness of an optional number and of an optional string.
truthyCount(c) == c.defined /\ c.n # 0
truthyCommit(c) == c \notin {"undefined", ""}

\* Mutant: the newer transcript field is overwritten by the deprecated ones.
normalizeAfterLoad_overwrite(st) ==
  [phase |-> phaseFromString(st.phase),
   checkpointTranscriptStart |->
     IF truthyCount(st.condensedTranscriptLines) /\ st.condensedTranscriptLines.n > 0
       THEN st.condensedTranscriptLines
       ELSE IF truthyCount(st.transcriptLinesAtStart) /\ st.transcriptLinesAtStart.n > 0
         THEN st.transcriptLinesAtStart
         ELSE st.checkpointTranscriptStart,
   condensedTranscriptLines |-> Num(0),
   transcriptLinesAtStart |-> Num(0),
   attributionBaseCommit |->
     IF ~truthyCommit(st.attributionBaseCommit) /\ truthyCommit(st.baseCommit)
       THEN st.baseCommit
       ELSE st.attributionBaseCommit,
   baseCommit |-> st.baseCommit]

normalizeAfterLoad(st) ==
  [phase |-> phaseFromString(st.phase),
   checkpointTranscriptStart |->
     IF truthyCount(st.checkpointTranscriptStart)
       THEN st.checkpointTranscriptStart
       ELSE IF truthyCount(st.condensedTranscriptLines) /\ st.condensedTranscriptLines.n > 0
         THEN st.condensedTranscriptLines
         ELSE IF truthyCount(st.transcriptLinesAtStart) /\ st.transcriptLinesAtStart.n > 0
           THEN st.transcriptLinesAtStart
           ELSE st.checkpointTranscriptStart,
   condensedTranscriptLines |-> Num(0),
   transcriptLinesAtStart |-> Num(0),
   attributionBaseCommit |->
     IF ~truthyCommit(st.attributionBaseCommit) /\ truthyCommit(st.baseCommit)
       THEN st.baseCommit
       ELSE st.attributionBaseCommit,
   baseCommit |-> st.baseCommit]

normFrame == <<vars, attrVars, treeVars, storeVars, overlapVars, logVars, lifeVars,
               maintVars>>

\* A state file was parsed.
NormInit ==
  /\ MachineIdle
  /\ AttrReady /\ TreeReady /\ StoreReady /\ OverlapReady /\ LogReady /\ LifeReady
  /\ MaintReady
  /\ nIn \in LoadedStates
  /\ nPrev = nIn
  /\ nState = nIn
  /\ nCalls = 0

\* normalizeAfterLoad(state): the object is mutated in place.
NormalizeCall ==
  /\ nCalls < MaxNormalize
  /\ nPrev' = nState
  /\ nState' = normalizeAfterLoad(nState)
  /\ nCalls' = nCalls + 1
  /\ UNCHANGED nIn
  /\ UNCHANGED normFrame

NormNext == NormalizeCall

SpecNorm == NormInit /\ [][NormNext]_allVars

\* C40: after normalizeAfterLoad the phase is idle, active or ended; an
\* attributionBaseCommit that was set is kept, an absent one is baseCommit
\* if that is set; a non-zero checkpointTranscriptStart is kept, otherwise it
\* is condensedTranscriptLines if that is > 0, else transcriptLinesAtStart if
\* that is > 0, else as it was; a second call changes nothing.
C40_NormalizeIdempotent ==
  nCalls >= 1 =>
    /\ nState.phase \in Phases
    /\ nState.attributionBaseCommit =
         IF truthyCommit(nIn.attributionBaseCommit) THEN nIn.attributionBaseCommit
         ELSE IF truthyCommit(nIn.baseCommit) THEN nIn.baseCommit
         ELSE nIn.attributionBaseCommit
    /\ nState.baseCommit = nIn.baseCommit
    /\ nState.checkpointTranscriptStart =
         CASE nIn.checkpointTranscriptStart.defined /\ nIn.checkpointTranscriptStart.n # 0
                -> nIn.checkpointTranscriptStart
           [] OTHER ->
                IF nIn.condensedTranscriptLines.defined /\ nIn.condensedTranscriptLines.n > 0
                  THEN nIn.condensedTranscriptLines
                  ELSE IF nIn.transcriptLinesAtStart.defined /\ nIn.transcriptLinesAtStart.n > 0
                    THEN nIn.transcriptLinesAtStart
                    ELSE nIn.checkpointTranscriptStart
    /\ nCalls >= 2 => nState = nPrev

\* normalizeAfterLoad ran twice on a state file with a retired phase, a zero
\* checkpointTranscriptStart, both deprecated counts set and no
\* attributionBaseCommit.
C40_Witness ==
  /\ nCalls = 2
  /\ nIn.phase = "active_committed"
  /\ nIn.checkpointTranscriptStart = Num(0)
  /\ nIn.condensedTranscriptLines = Num(2)
  /\ nIn.transcriptLinesAtStart = Num(1)
  /\ nIn.attributionBaseCommit = "undefined"
  /\ nIn.baseCommit = "c1"
  /\ nState.checkpointTranscriptStart = Num(2)
  /\ nState.attributionBaseCommit = "c1"

\* normalizeAfterLoad kept a checkpointTranscriptStart and an
\* attributionBaseCommit that were set, with other values in the fields they
\* could be taken from.
C40_LiveDataKept ==
  /\ nCalls = 1
  /\ nIn.checkpointTranscriptStart = Num(1)
  /\ nIn.condensedTranscriptLines = Num(2)
  /\ nIn.attributionBaseCommit = "c2"
  /\ nIn.baseCommit = "c1"

\* ------------------------------------------------- reset and discardSession

\* Commit hashes, as sequences of characters: two hashes that share their
\* first characters, a third one, and the abbreviation of the first two.
HashABC == <<"a", "b", "c">>
HashABD == <<"a", "b", "d">>
HashCDE == <<"c", "d", "e">>
HashAB == <<"a", "b">>

\* The values of HEAD, and of a session's baseCommit (which may be empty).
Heads == {HashABC, HashCDE}
BaseCommits == {<<>>, HashAB, HashABC, HashABD, HashCDE}

\* The values of a session's worktreeID ("" for undefined).
WorktreeIDs == {"", "w"}

\* The session IDs of the store, and one that is not stored.
SessionIDs == {"s1", "s2"}
UnknownSessionID == "s9"

\* The sessions a session store may hold under an ID.
StoredSessions ==
  {NoSession} \cup
  {[exists |-> TRUE, baseCommit |-> b, worktreeID |-> w, phase |-> p] :
     b \in BaseCommits, w \in WorktreeIDs, p \in Phases}

\* String.prototype.startsWith
startsWith(str, prefix) ==
  Len(prefix) <= Len(str) /\ SubSeq(str, 1, Len(prefix)) = prefix

\* The number of characters of the base commit hash kept in a branch name.
ShadowHashLength == 2

\* getShadowBranchName(baseCommit, worktreeID): the truncated hash and the
\* worktree suffix.
getShadowBranchName(baseCommit, worktreeID) ==
  [hash |-> SubSeq(baseCommit, 1, Min(Len(baseCommit), ShadowHashLength)),
   worktree |-> worktreeID]

\* sessionStore.list(), as the set of the IDs stored.
listSessions(sessions) == {id \in DOMAIN sessions : sessions[id].exists}

\* reset: the sessions matching options.sessionID ("" for undefined), or HEAD.
matchingSessions(sessions, head, sessionID) ==
  IF sessionID # ""
    THEN {id \in listSessions(sessions) : id = sessionID}
    ELSE {id \in listSessions(sessions) :
            sessions[id].baseCommit = head \/ startsWith(head, sessions[id].baseCommit)}

\* What a command leaves and returns.
CommandResult(sessions, branches, sessionsReset, branchesDeleted, errors) ==
  [sessions |-> sessions, branches |-> branches, sessionsReset |-> sessionsReset,
   branchesDeleted |-> branchesDeleted, errors |-> errors]

\* The loop of reset over the sessions in `ids`. branchFails and deleteFails
\* are the sessions for which deleteShadowBranch and sessionStore.delete
\* throw.
resetLoop(sessions, branches, ids, branchFails, deleteFails) ==
  LET withBranch == {id \in ids : sessions[id].baseCommit # <<>>}
      nameOf(id) == getShadowBranchName(sessions[id].baseCommit, sessions[id].worktreeID)
      deleted == {nameOf(id) : id \in withBranch \ branchFails}
      removed == ids \ deleteFails
  IN CommandResult([id \in DOMAIN sessions |->
                      IF id \in removed THEN NoSession ELSE sessions[id]],
                   branches \ deleted,
                   removed,
                   deleted,
                   {[error |-> "branch", id |-> id] : id \in withBranch \cap branchFails}
                     \cup {[error |-> "session", id |-> id] : id \in ids \cap deleteFails})

\* Mutant: without force the active sessions are left alone and the other
\* matching sessions are reset.
reset_skipActive(sessions, branches, head, sessionID, force, branchFails, deleteFails) ==
  LET matching == matchingSessions(sessions, head, sessionID)
      active == {id \in matching : sessions[id].phase = "active"}
  IN IF sessionID # "" /\ matching = {}
       THEN CommandResult(sessions, branches, {}, {}, {[error |-> "not found", id |-> sessionID]})
       ELSE resetLoop(sessions, branches, IF force THEN matching ELSE matching \ active,
                      branchFails, deleteFails)

reset(sessions, branches, head, sessionID, force, branchFails, deleteFails) ==
  LET matching == matchingSessions(sessions, head, sessionID)
      active == {id \in matching : sessions[id].phase = "active"}
  IN IF sessionID # "" /\ matching = {}
       THEN CommandResult(sessions, branches, {}, {}, {[error |-> "not found", id |-> sessionID]})
       ELSE IF ~force /\ active # {}
         THEN CommandResult(sessions, branches, {}, {}, {[error |-> "active", id |-> ""]})
         ELSE resetLoop(sessions, branches, matching, branchFails, deleteFails)

\* discardSession(sessionID). branchFails: deleteShadowBranch throws (and
\* discardSession with it); deleteFails: sessionStore.delete throws.
discardSession(sessions, branches, sessionID, branchFails, deleteFails) ==
  IF sessionID \notin listSessions(sessions)
    THEN CommandResult(sessions, branches, {}, {}, {})
    ELSE
      LET session == sessions[sessionID]
          name == getShadowBranchName(session.baseCommit, session.worktreeID)
          hasBranch == session.baseCommit # <<>>
      IN IF hasBranch /\ branchFails
           THEN CommandResult(sessions, branches, {}, {},
                              {[error |-> "branch", id |-> sessionID]})
           ELSE CommandResult(
                  IF deleteFails THEN sessions
                                 ELSE [sessions EXCEPT ![sessionID] = NoSession],
                  IF hasBranch THEN branches \ {name} ELSE branches,
                  IF deleteFails THEN {} ELSE {sessionID},
                  IF hasBranch THEN {name} ELSE {},
                  IF deleteFails THEN {[error |-> "session", id |-> sessionID]} ELSE {})

\* The shadow branches of the sessions stored.
branchesOf(sessions) ==
  {getShadowBranchName(sessions[id].baseCommit, sessions[id].worktreeID) :
     id \in {i \in listSessions(sessions) : sessions[i].baseCommit # <<>>}}

maintFrame == <<vars, attrVars, treeVars, storeVars, overlapVars, logVars, lifeVars,
                normVars>>

\* A repository with stored sessions, some of which have taken checkpoints.
MaintInit ==
  /\ MachineIdle
  /\ AttrReady /\ TreeReady /\ StoreReady /\ OverlapReady /\ LogReady /\ LifeReady
  /\ NormReady
  /\ mSessions \in [SessionIDs -> StoredSessions]
  /\ mBranches \in SUBSET branchesOf(mSessions)
  /\ mHead \in Heads
  /\ mOp = NoCommand

\* One invocation of a command, from any contents of the stores: the stores
\* are as it left them, and mOp keeps what it was given and what it returned.
Ran(kind, sessionID, force, out) ==
  /\ mOp = NoCommand
  /\ mSessions' = out.sessions
  /\ mBranches' = out.branches
  /\ mOp' = [kind |-> kind, sessionID |-> sessionID, force |-> force,
             sessions |-> mSessions, branches |-> mBranches,
             sessionsReset |-> out.sessionsReset,
             branchesDeleted |-> out.branchesDeleted, errors |-> out.errors]
  /\ UNCHANGED mHead
  /\ UNCHANGED maintFrame

ResetCall ==
  \E sessionID \in {"", UnknownSessionID} \cup SessionIDs, force \in BOOLEAN,
     branchFails, deleteFails \in SUBSET SessionIDs :
    Ran("reset", sessionID, force,
        reset(mSessions, mBranches, mHead, sessionID, force, branchFails, deleteFails))

DiscardSessionCall ==
  \E sessionID \in {UnknownSessionID} \cup SessionIDs, branchFails, deleteFails \in BOOLEAN :
    Ran("discardSession", sessionID, FALSE,
        discardSession(mSessions, mBranches, sessionID, branchFails, deleteFails))

MaintNext == ResetCall \/ DiscardSessionCall

SpecMaint == MaintInit /\ [][MaintNext]_allVars

\* C36: a shadow branch that a command deleted is the branch of no session
\* that is still stored with the base commit and worktree of a session the
\* command discarded.
C36_SharedBranchKept ==
  mOp.kind # "none" =>
    \A gone \in mOp.sessionsReset, kept \in listSessions(mSessions) :
      LET a == mOp.sessions[gone]
          b == mSessions[kept]
      IN (/\ a.baseCommit = b.baseCommit
          /\ a.worktreeID = b.worktreeID
          /\ a.baseCommit # <<>>)
           => getShadowBranchName(b.baseCommit, b.worktreeID)
                \notin mOp.branches \ mBranches

\* C37: a reset without force for which a matching session is active, and a
\* reset for a session ID that is not stored, return an error, delete no
\* session state and delete no shadow branch.
C37_ResetAllOrNothing ==
  LET matching == matchingSessions(mOp.sessions, mHead, mOp.sessionID)
  IN (/\ mOp.kind = "reset"
      /\ \/ ~mOp.force /\ \E id \in matching : mOp.sessions[id].phase = "active"
         \/ mOp.sessionID # "" /\ mOp.sessionID \notin listSessions(mOp.sessions))
       => /\ mOp.errors # {}
          /\ mSessions = mOp.sessions
          /\ mBranches = mOp.branches
          /\ mOp.sessionsReset = {}
          /\ mOp.branchesDeleted = {}

\* A reset without force and without a session ID matched an active session
\* and an idle one, each with a shadow branch.
C37_Witness ==
  /\ mOp.kind = "reset"
  /\ ~mOp.force
  /\ mOp.sessionID = ""
  /\ matchingSessions(mOp.sessions, mHead, "") = SessionIDs
  /\ mOp.sessions["s1"].phase = "active"
  /\ mOp.sessions["s2"].phase = "idle"
  /\ Cardinality(mOp.branches) = 2

\* A reset was asked for a session ID that is not stored.
C37_UnknownSession ==
  /\ mOp.kind = "reset"
  /\ mOp.sessionID = UnknownSessionID
  /\ mOp.force
  /\ mOp.branches # {}

====
